---- MODULE Spec2Model ----
(***************************************************************************)
(* Model of the Japan suicide-statistics pipeline scripts:                  *)
(*   src/processing/compile_master_csv.py  (era years, age bins, melt)      *)
(*   src/analysis/clean_data.py            (wide-to-long reshaping)         *)
(*   src/analysis/check_data.py            (column survey of the CSVs)      *)
(*   src/processing/pdf_to_csv.py          (PDF tables to CSV files)        *)
(*   src/ml/suicide_prevention_report.py   (economic metrics)               *)
(*   src/ml/convert_plotly_viz.py          (share of each age group)        *)
(*   src/ml/assumptions.py                 (assumption tables)              *)
(*   src/ml/youth_suicide_data.py          (program cost-effectiveness)     *)
(*   src/ml/youth_json_charts.py           (program cost table)             *)
(*   src/scrapers/police_scraper.py        (download of the raw files)      *)
(*                                                                          *)
(* Text is modelled as a sequence of characters, one string per character.  *)
(* The Japanese characters of the source are written in ASCII:              *)
(*   "~"   is the full-width tilde  ～      "sai"  is 歳                     *)
(*   "nen" is 年    "do" is 度    "fu" is 不    "shou" is 詳                  *)
(*   "i" "jou" is 以上    "gou" "kei" is 合計    "ku" "bun" is 区分           *)
(*   "hyou" is 表   "dan" is 男   "x" is any other letter                    *)
(* so "～19歳" is <<"~","1","9","sai">>.  The empty text <<>> is an empty    *)
(* CSV field, which pandas reads as NaN.                                    *)
(***************************************************************************)
EXTENDS Integers, Sequences, FiniteSets, TLC

VARIABLES
    j_year,     \* argument of japanese_year_to_western
    ret,        \* what the call returned, or raised
    map_name,   \* the script whose age-bracket table is applied
    raw_label,  \* the raw age label given to Series.map
    mapped,     \* the label Series.map produced
    script,     \* the reshaping code that runs
    pc,         \* its position
    csv_file,   \* the rows of the input CSV file, as text
    header_row_idx, \* compile_master_csv: the detected header row (0-based)
    df,         \* the table read from csv_file
    df_melt,    \* the long table melt returned
    df_final,   \* compile_master_csv: the normalized long table
    out_file,   \* the output CSV file and the rows written to it
    exc,        \* the exception that ended the script, or "none"
    first_run,  \* the output file and exception the first run left
    program,    \* the consumer of age_cleaned.csv that runs
    assumptions, \* the module assumptions: its tables and its rate
    age_csv,    \* the rows of age_cleaned.csv
    df_age,     \* the age table, one row per record
    df_policy,  \* the table calculate_economic_impact returned
    summary_metrics, \* the dict extract_summary_metrics returned
    age_breakdown, \* the list extract_age_breakdown returned
    yearly_totals, \* convert_plotly_viz: suicides per year
    df_pct,     \* convert_plotly_viz: df_age merged with yearly_totals
    json_file,  \* extracted_metrics.json
    first_json, \* extracted_metrics.json as the first run of main left it
    step,       \* the position in the program
    raised,     \* the exception a report function raised, or "none"
    batch,      \* the batch script that runs
    inputs,     \* its input files, in the order the script visits them
    limit,      \* pdf_to_csv: the --limit argument
    bpc,        \* the part of the batch script that runs
    pos,        \* the number of iterations of that part that are done
    dataframes, \* clean_data: the names of the tables loaded
    all_columns, \* check_data: the column names collected
    out_dir,    \* the names of the output files written
    tables_written, \* pdf_to_csv: what the last extract_tables_from_pdf returned
    total_tables, \* pdf_to_csv: the sum of the counts returned
    io_log,     \* the reads and writes of files, in the order they happened
    batch_exc,  \* the uncaught exception that ended the batch script, or "none"
    youth,      \* the program of the nonprofit analysis that runs
    ypc,        \* its position
    schools,    \* generate_program_report: the schools reached
    hotline,    \* the annual hotline contacts
    actual_budget, \* the budget given, or None
    youth_suicide_rate_per_100k, \* the rate the model loaded from the data
    program_cost, \* the annual program cost, in thousands of yen
    reach,      \* what calculate_reach returned
    impact,     \* what calculate_impact returned, one entry per scenario
    who_assessment, \* what assess_cost_effectiveness returned, per scenario
    cost_table, \* the amounts of the table create_program_cost_table built
    youth_exc,  \* the exception that ended generate_program_report, or "none"
    spc,        \* police_scraper: the position in main
    site,       \* the pages the server holds: the anchors of each URL
    run,        \* the number of the run of the scraper
    dir_at_start, \* the files of DOWNLOAD_DIR when the run started
    download_dir, \* the files of DOWNLOAD_DIR, each a name and a content
    year_folders, \* what list_year_folders returned
    all_files,  \* the file URLs discovered
    loop_idx,   \* the position of the loop of main that runs
    sg_url,     \* safe_get: its argument
    attempt,    \* safe_get: the passes of its loop that have failed
    outcomes,   \* safe_get: the outcome of each GET of the call
    resp,       \* what safe_get returned, or Pending while it runs
    dl_log,     \* one entry per call of download_file
    any_failure \* whether a GET of this run has failed

yearVars == <<j_year, ret>>
ageVars == <<map_name, raw_label, mapped>>
tableVars ==
    <<script, pc, csv_file, header_row_idx, df, df_melt, df_final, out_file, exc,
      first_run>>
econVars ==
    <<program, assumptions, age_csv, df_age, df_policy, summary_metrics, age_breakdown,
      yearly_totals, df_pct, json_file, first_json, step, raised>>
batchVars ==
    <<batch, inputs, limit, bpc, pos, dataframes, all_columns, out_dir,
      tables_written, total_tables, io_log, batch_exc>>
youthVars ==
    <<youth, ypc, schools, hotline, actual_budget, youth_suicide_rate_per_100k,
      program_cost, reach, impact, who_assessment, cost_table, youth_exc>>
scrapeVars ==
    <<spc, site, run, dir_at_start, download_dir, year_folders, all_files, loop_idx, sg_url, attempt,
      outcomes, resp, dl_log, any_failure>>
vars == <<yearVars, ageVars, tableVars, econVars, batchVars, youthVars, scrapeVars,
         scrapeVars>>

----------------------------------------------------------------------------
(* Python values: an int, None (NaN in a pandas column), a raised exception *)

IntVal(n) == [k |-> "int", v |-> n]
None == [k |-> "None", v |-> 0]
ValueError == [k |-> "ValueError", v |-> 0]
Pending == [k |-> "pending", v |-> 0]

----------------------------------------------------------------------------
(* Text helpers                                                            *)

DigitVal == ("0" :> 0) @@ ("1" :> 1) @@ ("2" :> 2) @@ ("3" :> 3) @@ ("4" :> 4)
            @@ ("5" :> 5) @@ ("6" :> 6) @@ ("7" :> 7) @@ ("8" :> 8) @@ ("9" :> 9)

IsDigit(c) == c \in DOMAIN DigitVal

IsSpace(c) == c = " "

RECURSIVE LStrip(_)
LStrip(s) == IF s # <<>> /\ IsSpace(Head(s)) THEN LStrip(Tail(s)) ELSE s

RECURSIVE RStrip(_)
RStrip(s) ==
    IF s # <<>> /\ IsSpace(s[Len(s)]) THEN RStrip(SubSeq(s, 1, Len(s) - 1)) ELSE s

\* str.strip()
Strip(s) == RStrip(LStrip(s))

\* the value of a non-empty string of decimal digits
RECURSIVE DigitsValue(_)
DigitsValue(s) ==
    IF s = <<>> THEN 0
    ELSE 10 * DigitsValue(SubSeq(s, 1, Len(s) - 1)) + DigitVal[s[Len(s)]]

AllDigits(s) == s # <<>> /\ \A i \in 1..Len(s) : IsDigit(s[i])

\* Python's int(text): optional surrounding whitespace, an optional sign and
\* decimal digits; anything else (the empty text too) raises ValueError.
PyInt(text) ==
    LET s == Strip(text)
        signed == s # <<>> /\ Head(s) \in {"-", "+"}
        body == IF signed THEN Tail(s) ELSE s
    IN  IF ~AllDigits(body) THEN ValueError
        ELSE IF signed /\ Head(s) = "-" THEN IntVal(0 - DigitsValue(body))
        ELSE IntVal(DigitsValue(body))

\* re.sub(r"\D", "", text)
StripNonDigits(text) == SelectSeq(text, IsDigit)

----------------------------------------------------------------------------
(* compile_master_csv.py: japanese_year_to_western                          *)

ShowaBase == 1925
HeiseiBase == 1988

\* 1925 + int(...): the addition happens only when int() returned
AddTo(base, r) == IF r.k = "int" THEN IntVal(base + r.v) ELSE r

japanese_year_to_western_offbyone(label) ==
    LET s == Strip(label)
    IN  IF s # <<>> /\ Head(s) = "S" THEN AddTo(ShowaBase, PyInt(StripNonDigits(s)))
        ELSE IF s # <<>> /\ Head(s) = "H"
             THEN AddTo(HeiseiBase + 1, PyInt(StripNonDigits(s)))
        ELSE LET r == PyInt(s) IN IF r.k = "ValueError" THEN None ELSE r

japanese_year_to_western(label) ==
    LET s == Strip(label)
    IN  IF s # <<>> /\ Head(s) = "S" THEN AddTo(ShowaBase, PyInt(StripNonDigits(s)))
        ELSE IF s # <<>> /\ Head(s) = "H"
             THEN AddTo(HeiseiBase, PyInt(StripNonDigits(s)))
        ELSE LET r == PyInt(s) IN IF r.k = "ValueError" THEN None ELSE r

----------------------------------------------------------------------------
(* The era-year normalizer applied to every label up to MaxLabelLen         *)

MaxLabelLen == 3
MaxRelYear == 199

YearChars == {"S", "H", "R", "-", " ", "0", "1", "6"}

RECURSIVE SeqsUpTo(_, _)
SeqsUpTo(S, n) ==
    IF n = 0 THEN {<<>>}
    ELSE LET shorter == SeqsUpTo(S, n - 1)
         IN  shorter \cup {Append(s, c) : s \in {t \in shorter : Len(t) = n - 1}, c \in S}

YearLabels == SeqsUpTo(YearChars, MaxLabelLen)

YearIdle == j_year = <<>> /\ ret = Pending
AgeIdle == map_name = "none" /\ raw_label = <<>> /\ mapped = "pending"

EmptyFrame == [columns |-> <<>>, rows |-> <<>>, dtypes |-> <<>>]
Absent == [exists |-> FALSE, rows |-> <<>>]

\* a to_csv that appends to the file it finds
FileAppended(rows) == [exists |-> TRUE, rows |-> out_file.rows \o rows]

File(rows) == [exists |-> TRUE, rows |-> rows]
FirstRun == [taken |-> FALSE, file |-> Absent, exc |-> "none"]
TableIdle ==
    /\ script = "none" /\ pc = "idle" /\ csv_file = <<>> /\ header_row_idx = None
    /\ df = EmptyFrame /\ df_melt = <<>> /\ df_final = <<>>
    /\ out_file = Absent /\ exc = "none" /\ first_run = FirstRun

----------------------------------------------------------------------------
(* assumptions.py.  Amounts of money are in units of 10,000 yen (万円):     *)
(* 1_500_000 yen is 150, 3_000_000_000 yen is 300000.  Every product of the *)
(* model then fits TLC's integers, and 15% of every annual loss is whole.   *)

SALARY_BY_AGE ==
    ("0-9" :> 0) @@ ("10-19" :> 150) @@ ("20-29" :> 300) @@ ("30-39" :> 400)
    @@ ("40-49" :> 500) @@ ("50-59" :> 600) @@ ("60-69" :> 300)
    @@ ("70-79" :> 250) @@ ("80+" :> 250)

WORK_YEARS_LEFT ==
    ("0-9" :> 45) @@ ("10-19" :> 40) @@ ("20-29" :> 35) @@ ("30-39" :> 25)
    @@ ("40-49" :> 15) @@ ("50-59" :> 7) @@ ("60-69" :> 3)
    @@ ("70-79" :> 0) @@ ("80+" :> 0)

\* SUICIDE_REDUCTION_RATE = 0.15, in percent
SUICIDE_REDUCTION_RATE == 15

INTERVENTION_COST_BY_AGE ==
    ("0-9" :> 100000) @@ ("10-19" :> 300000) @@ ("20-29" :> 500000)
    @@ ("30-39" :> 500000) @@ ("40-49" :> 400000) @@ ("50-59" :> 300000)
    @@ ("60-69" :> 200000) @@ ("70-79" :> 100000) @@ ("80+" :> 50000)

\* the module as import leaves it
AssumptionsAtLoad ==
    [SALARY_BY_AGE |-> SALARY_BY_AGE,
     WORK_YEARS_LEFT |-> WORK_YEARS_LEFT,
     SUICIDE_REDUCTION_RATE |-> SUICIDE_REDUCTION_RATE,
     INTERVENTION_COST_BY_AGE |-> INTERVENTION_COST_BY_AGE]

\* a float that is a ratio of two whole amounts, inf or nan
FloatNaN == [k |-> "nan", n |-> 0, d |-> 0]
FloatInf == [k |-> "inf", n |-> 1, d |-> 0]

\* a Python object handed to json.dump: a scalar with its type, or a dict, a
\* list or a tuple of objects; the keys of a dict are scalars
Scalar(t, v) == [t |-> t, v |-> v]
PyDict(keys, vals) == [t |-> "dict", keys |-> keys, vals |-> vals]
PyList(items) == [t |-> "list", items |-> items]
PyTuple(items) == [t |-> "tuple", items |-> items]
PyStrs(names) == [i \in 1..Len(names) |-> Scalar("str", names[i])]

NoSummary ==
    [total_annual_loss_yen |-> 0, total_suicides |-> 0,
     total_loss_prevented_yen |-> 0, total_intervention_cost_yen |-> 0,
     total_net_benefit_yen |-> 0, overall_roi |-> FloatNaN]
NoJson ==
    [exists |-> FALSE, summary_metrics |-> NoSummary, age_breakdown |-> <<>>,
     yearly_trends |-> <<>>, data_clean |-> PyDict(<<>>, <<>>)]
NotRun == [taken |-> FALSE, file |-> NoJson]

EconIdle ==
    /\ program = "none" /\ age_csv = <<>>
    /\ assumptions = AssumptionsAtLoad
    /\ df_age = <<>> /\ df_policy = <<>> /\ age_breakdown = <<>>
    /\ summary_metrics = NoSummary
    /\ yearly_totals = <<>> /\ df_pct = <<>>
    /\ json_file = NoJson /\ first_json = NotRun
    /\ step = "idle" /\ raised = "none"

BatchIdle ==
    /\ batch = "none" /\ inputs = <<>> /\ limit = 0 /\ bpc = "idle" /\ pos = 0
    /\ dataframes = {} /\ all_columns = {} /\ out_dir = {}
    /\ tables_written = 0 /\ total_tables = 0
    /\ io_log = <<>> /\ batch_exc = "none"

NoReach ==
    [students_in_workshops |-> 0, unique_hotline_contacts |-> 0,
     total_individuals_reached |-> 0]
NoTable == [total_staff |-> 0, benefits |-> 0, total_operating |-> 0, total_program |-> 0]

YouthIdle ==
    /\ youth = "none" /\ ypc = "idle" /\ schools = 0 /\ hotline = 0
    /\ actual_budget = None /\ youth_suicide_rate_per_100k = 0
    /\ program_cost = 0 /\ reach = NoReach /\ impact = <<>>
    /\ who_assessment = <<>> /\ cost_table = NoTable /\ youth_exc = "none"

\* what safe_get returns: None, or the response to a URL
NoResponse == [k |-> "None", url |-> <<>>]
Response(url) == [k |-> "response", url |-> url]
Running == [k |-> "pending", url |-> <<>>]
NotCalled == [k |-> "idle", url |-> <<>>]

ScrapeIdle ==
    /\ spc = "idle" /\ site = <<>> /\ run = 0
    /\ dir_at_start = {} /\ download_dir = {}
    /\ year_folders = <<>> /\ all_files = <<>> /\ loop_idx = 0
    /\ sg_url = <<>> /\ attempt = 0 /\ outcomes = <<>> /\ resp = NotCalled
    /\ dl_log = <<>> /\ any_failure = FALSE

InitYear ==
    /\ j_year \in YearLabels
    /\ ret = Pending
    /\ AgeIdle
    /\ TableIdle
    /\ EconIdle
    /\ BatchIdle
    /\ YouthIdle
    /\ ScrapeIdle

CallJapaneseYearToWestern ==
    /\ ret = Pending
    /\ ret' = japanese_year_to_western(j_year)
    /\ UNCHANGED <<j_year, ageVars, tableVars, econVars, batchVars, youthVars, scrapeVars>>

NextYear == CallJapaneseYearToWestern

SpecYear == InitYear /\ [][NextYear]_vars

\* the decimal text of a natural number, as str(n) writes it
RECURSIVE Decimal(_)
Decimal(n) ==
    LET d == CHOOSE c \in DOMAIN DigitVal : DigitVal[c] = n % 10
    IN  IF n < 10 THEN <<d>> ELSE Append(Decimal(n \div 10), d)

HasEraPrefix(label) == LET s == Strip(label) IN s # <<>> /\ Head(s) \in {"S", "H"}

\* C1: japanese_year_to_western never raises: it returns an integer or None
\* for every label, and None for a label with no era prefix that is not a
\* plain integer.
C1_NeverRaises ==
    ret # Pending =>
        /\ ret.k \in {"int", "None"}
        /\ (~HasEraPrefix(j_year) /\ PyInt(j_year).k # "int") => ret = None

\* C2: an era prefix followed by a relative year n gives era base + n
\* (1925 + n for S, 1988 + n for H); a plain integer string gives that integer.
C2_EraBasePlusRelativeYear ==
    ret # Pending =>
        \A n \in 0..MaxRelYear :
            /\ j_year = <<"S">> \o Decimal(n) => ret = IntVal(1925 + n)
            /\ j_year = <<"H">> \o Decimal(n) => ret = IntVal(1988 + n)
            /\ j_year = Decimal(n) => ret = IntVal(n)

C2_Witness ==
    /\ j_year = <<"H", "6">>
    /\ ret = IntVal(1994)

\* C19: an era prefix followed by a relative year that is 0 or negative
\* ("H0", "H-1") still gives era base + relative year (1988 + 0, 1988 - 1)
\* and the call does not raise.
C19_ZeroOrNegativeRelativeYear ==
    ret # Pending =>
        \A n \in 0..9 :
            /\ j_year = <<"S", "-">> \o Decimal(n) => ret = IntVal(1925 - n)
            /\ j_year = <<"H", "-">> \o Decimal(n) => ret = IntVal(1988 - n)
            /\ j_year = <<"S", "0">> => ret = IntVal(1925)
            /\ j_year = <<"H", "0">> => ret = IntVal(1988)

----------------------------------------------------------------------------
(* The age-bracket mapping tables                                           *)

NaN == "NaN"

\* compile_master_csv.py: age_mapping
age_mapping ==
    (<<"~", "1", "9", "sai">> :> "0-19")
    @@ (<<"2", "0", "~", "2", "9", "sai">> :> "20-29")
    @@ (<<"3", "0", "~", "3", "9", "sai">> :> "30-39")
    @@ (<<"4", "0", "~", "4", "9", "sai">> :> "40-49")
    @@ (<<"5", "0", "~", "5", "9", "sai">> :> "50-59")
    @@ (<<"6", "0", "~", "6", "9", "sai">> :> "60-69")
    @@ (<<"7", "0", "~", "7", "9", "sai">> :> "70-79")
    @@ (<<"8", "0", "sai", "~">> :> "80+")
    @@ (<<"fu", " ", "shou">> :> "Unknown")
    @@ (<<"fu", "shou">> :> "Unknown")

\* suicide_prevention_report.py, load_and_prepare_data: age_map
age_map_report ==
    (<<"0", "~", "9", "sai">> :> "0-9")
    @@ (<<"1", "0", "~", "1", "9", "sai">> :> "10-19")
    @@ (<<"2", "0", "~", "2", "9", "sai">> :> "20-29")
    @@ (<<"3", "0", "~", "3", "9", "sai">> :> "30-39")
    @@ (<<"4", "0", "~", "4", "9", "sai">> :> "40-49")
    @@ (<<"5", "0", "~", "5", "9", "sai">> :> "50-59")
    @@ (<<"6", "0", "~", "6", "9", "sai">> :> "60-69")
    @@ (<<"7", "0", "~", "7", "9", "sai">> :> "70-79")
    @@ (<<"8", "0", "sai", "i", "jou">> :> "80+")

\* convert_plotly_viz.py: age_map
age_map_viz ==
    age_map_report
    @@ (<<"fu", "shou">> :> "Unknown")
    @@ (<<"gou", "kei">> :> "Total")

AgeTables ==
    [compile_master_csv |-> age_mapping,
     suicide_prevention_report |-> age_map_report,
     convert_plotly_viz |-> age_map_viz]

\* Series.map(table): the table's value for a key of the table, NaN otherwise
SeriesMap(table, label) == IF label \in DOMAIN table THEN table[label] ELSE NaN

\* the canonical bracket vocabulary of the specification
CanonicalBrackets ==
    {"0-9", "10-19", "20-29", "30-39", "40-49", "50-59", "60-69", "70-79", "80+",
     "Unknown", "Total"}

KnownAgeLabels == DOMAIN age_mapping \cup DOMAIN age_map_viz

\* the raw labels tried: every key of every table, the same keys with a
\* leading space, and some labels no table knows
AgeLabels ==
    KnownAgeLabels
    \cup {<<" ">> \o l : l \in KnownAgeLabels}
    \cup {<<>>, <<"nen">>, <<"dan">>, <<"9", "0", "sai", "i", "jou">>}

InitAge ==
    /\ map_name \in DOMAIN AgeTables
    /\ raw_label \in AgeLabels
    /\ mapped = "pending"
    /\ YearIdle
    /\ TableIdle
    /\ EconIdle
    /\ BatchIdle
    /\ YouthIdle
    /\ ScrapeIdle

MapAgeGroup ==
    /\ mapped = "pending"
    /\ mapped' = SeriesMap(AgeTables[map_name], raw_label)
    /\ UNCHANGED <<map_name, raw_label, yearVars, tableVars, econVars, batchVars, youthVars,
                   scrapeVars>>

NextAge == MapAgeGroup

SpecAge == InitAge /\ [][NextAge]_vars

\* C4: each age-bracket table maps every raw label it knows to one label of
\* the canonical set, and every label it does not know to null.
C4_MapsIntoCanonicalSet ==
    mapped # "pending" =>
        IF raw_label \in DOMAIN AgeTables[map_name]
        THEN mapped \in CanonicalBrackets
        ELSE mapped = NaN

----------------------------------------------------------------------------
(* pandas: read_csv, dropna, melt, to_numeric                               *)

NanText == <<"n", "a", "n">>

\* marker in text
Contains(text, marker) ==
    \E i \in 0..(Len(text) - Len(marker)) : SubSeq(text, i + 1, i + Len(marker)) = marker

\* the positions of S within 1..n, in order
Positions(S, n) == SelectSeq([j \in 1..n |-> j], LAMBDA j : j \in S)

\* read_csv names a column whose header field is empty "Unnamed: <position>"
Unnamed(j) == <<"U", "n", "n", "a", "m", "e", "d", ":", " ">> \o Decimal(j)

IsIntLiteral(cell) == PyInt(cell).k = "int"

\* read_csv infers a column's type from all its cells: integers give int64,
\* integers with missing cells give float64, any other text gives object
InferDtype(cells) ==
    IF Len(cells) = 0 THEN "object"
    ELSE IF \A i \in 1..Len(cells) : IsIntLiteral(cells[i]) THEN "int64"
    ELSE IF \A i \in 1..Len(cells) : cells[i] = <<>> \/ IsIntLiteral(cells[i])
         THEN "float64"
    ELSE "object"

IntText(n) == IF n < 0 THEN <<"-">> \o Decimal(0 - n) ELSE Decimal(n)

\* str(value) of a cell of a column of that type: 5, 5.0, nan, or the text
PyStr(dtype, cell) ==
    IF cell = <<>> THEN NanText
    ELSE IF dtype = "int64" THEN IntText(PyInt(cell).v)
    ELSE IF dtype = "float64" THEN IntText(PyInt(cell).v) \o <<".", "0">>
    ELSE cell

\* pd.read_csv(file, header=h): row h (1-based here) names the columns, the
\* rows after it are the data, the rows before it are dropped
ReadCsv(csv, h) ==
    LET width == Len(csv[h])
        body == SubSeq(csv, h + 1, Len(csv))
    IN  [columns |-> [j \in 1..width |->
                         IF csv[h][j] = <<>> THEN Unnamed(j - 1) ELSE csv[h][j]],
         rows |-> body,
         dtypes |-> [j \in 1..width |->
                         InferDtype([i \in 1..Len(body) |-> body[i][j]])]]

\* df.dropna(how="all")
DropNaAll(frame) ==
    [frame EXCEPT !.rows = SelectSeq(@, LAMBDA r : \E j \in 1..Len(r) : r[j] # <<>>)]

\* the long row melt makes of row i and value column j
LongRow(frame, idc, i, j) ==
    [ids |-> [m \in 1..Len(idc) |-> frame.rows[i][idc[m]]],
     variable |-> frame.columns[j],
     value |-> frame.rows[i][j]]

\* a melt that puts the columns of one row next to each other
MeltRowMajor(frame, idc, valc) ==
    LET R == Len(frame.rows)
        K == Len(valc)
    IN  [p \in 1..(K * R) |->
            LongRow(frame, idc, ((p - 1) \div K) + 1, valc[((p - 1) % K) + 1])]

\* a melt that leaves out the rows whose value is missing
MeltDropNa(frame, idc, valc) ==
    LET R == Len(frame.rows)
        K == Len(valc)
        all == [p \in 1..(K * R) |->
                   LongRow(frame, idc, ((p - 1) % R) + 1, valc[((p - 1) \div R) + 1])]
    IN  SelectSeq(all, LAMBDA r : r.value # <<>>)

\* df.melt(id_vars, value_vars): one long row per (row, value column); pandas
\* stacks the value columns one after the other, each with all the rows
Melt(frame, idc, valc) ==
    LET R == Len(frame.rows)
        K == Len(valc)
    IN  [p \in 1..(K * R) |->
            LongRow(frame, idc, ((p - 1) % R) + 1, valc[((p - 1) \div R) + 1])]

\* .str.replace(",", "")
RemoveCommas(text) == SelectSeq(text, LAMBDA c : c # ",")

\* pd.to_numeric(text, errors="coerce"): an integer, a float written n.0
\* (the value n), or NaN for "nan" and for any other text
ToNumeric(text) ==
    LET n == Len(text)
        whole == IF n > 2 /\ SubSeq(text, n - 1, n) = <<".", "0">>
                 THEN SubSeq(text, 1, n - 2) ELSE text
        r == PyInt(whole)
    IN  IF r.k = "int" /\ whole = Strip(whole) THEN r ELSE None

CleanNumericKeepCommas(text) == ToNumeric(Strip(text))

\* compile_master_csv.py lines 67-68
CleanNumeric(text) == ToNumeric(Strip(RemoveCommas(text)))

----------------------------------------------------------------------------
(* compile_master_csv.py, the script body                                   *)

Marker == <<"~", "1", "9", "sai">>
Nen == <<"nen">>
Nendo == <<"nen", "do">>

\* the characters of the labels age_mapping produces
LabelChars ==
    ("0-19" :> <<"0", "-", "1", "9">>) @@ ("20-29" :> <<"2", "0", "-", "2", "9">>)
    @@ ("30-39" :> <<"3", "0", "-", "3", "9">>) @@ ("40-49" :> <<"4", "0", "-", "4", "9">>)
    @@ ("50-59" :> <<"5", "0", "-", "5", "9">>) @@ ("60-69" :> <<"6", "0", "-", "6", "9">>)
    @@ ("70-79" :> <<"7", "0", "-", "7", "9">>) @@ ("80+" :> <<"8", "0", "+">>)
    @@ ("Unknown" :> <<"U", "n", "k", "n", "o", "w", "n">>)

\* the rows of df_raw with a cell whose text contains the marker
HeaderHits(csv) ==
    {i \in 1..Len(csv) :
        \E j \in 1..Len(csv[i]) : Contains(PyStr("object", csv[i][j]), Marker)}

\* the last row with the marker instead of the first
LastHit(S) == CHOOSE x \in S : \A y \in S : x >= y

Min(S) == CHOOSE x \in S : \A y \in S : x <= y

\* lines 57-58
age_cols(frame) ==
    Positions({j \in 1..Len(frame.columns) : frame.columns[j] \in DOMAIN age_mapping},
              Len(frame.columns))
id_vars(frame) ==
    Positions({j \in 1..Len(frame.columns) : frame.columns[j] \notin DOMAIN age_mapping},
              Len(frame.columns))

ColumnIndex(frame, name) == CHOOSE j \in 1..Len(frame.columns) : frame.columns[j] = name

\* the text .astype(str) gives a melted value: the value column is int64 when
\* every age column is, float64 when every age column is numeric, and
\* otherwise holds each cell as its own column read it
ValueText(frame, row) ==
    LET kinds == {frame.dtypes[age_cols(frame)[m]] : m \in 1..Len(age_cols(frame))}
        own == frame.dtypes[ColumnIndex(frame, row.variable)]
    IN  IF kinds = {"int64"} THEN PyStr("int64", row.value)
        ELSE IF "object" \notin kinds THEN PyStr("float64", row.value)
        ELSE PyStr(own, row.value)

\* lines 71-75: the text of the cell japanese_year_to_western is applied to:
\* column 年, else column 年度, else the first column of df_melt, which is the
\* first identifier column or, without any, the mapped age_group
YearText(frame, row) ==
    LET idc == id_vars(frame)
        named(name) == {m \in 1..Len(idc) : frame.columns[idc[m]] = name}
        m == IF named(Nen) # {} THEN Min(named(Nen))
             ELSE IF named(Nendo) # {} THEN Min(named(Nendo))
             ELSE 1
    IN  IF Len(idc) = 0 THEN LabelChars[SeriesMap(age_mapping, row.variable)]
        ELSE PyStr(frame.dtypes[idc[m]], row.ids[m])

\* line 78: the identifier columns kept beside year, age_group, suicides
KeptIds(frame, row) ==
    LET idc == id_vars(frame)
        keep == Positions({m \in 1..Len(idc) : frame.columns[idc[m]] \notin {Nen, Nendo}},
                          Len(idc))
    IN  [n \in 1..Len(keep) |-> row.ids[keep[n]]]

\* lines 64-79 for one melted row
FinalRow(frame, row) ==
    [year |-> japanese_year_to_western(YearText(frame, row)),
     age_group |-> SeriesMap(age_mapping, row.variable),
     suicides |-> CleanNumeric(ValueText(frame, row)),
     ids |-> KeptIds(frame, row)]

\* lines 37-47: read the file without a header and look for the header row
ReadAndDetectHeader ==
    /\ script = "compile_master_csv" /\ pc = "start"
    /\ IF HeaderHits(csv_file) = {}
       THEN /\ header_row_idx' = None
            /\ pc' = "failed"
            /\ exc' = "ValueError"
       ELSE /\ header_row_idx' = IntVal(Min(HeaderHits(csv_file)) - 1)
            /\ pc' = "header"
            /\ exc' = exc
    /\ UNCHANGED <<script, first_run, csv_file, df, df_melt, df_final, out_file,
                   yearVars, ageVars, econVars, batchVars, youthVars, scrapeVars>>

\* lines 50-61: read again with that header, drop the empty rows, melt
ReadAndMelt ==
    /\ script = "compile_master_csv" /\ pc = "header"
    /\ df' = DropNaAll(ReadCsv(csv_file, header_row_idx.v + 1))
    /\ df_melt' = Melt(df', id_vars(df'), age_cols(df'))
    /\ pc' = "melted"
    /\ UNCHANGED <<script, first_run, csv_file, header_row_idx, df_final, out_file, exc,
                   yearVars, ageVars, econVars, batchVars, youthVars, scrapeVars>>

\* lines 64-79: age bins, numeric values, years; int() raising ends the script
Normalize ==
    /\ script = "compile_master_csv" /\ pc = "melted"
    /\ LET final == [p \in 1..Len(df_melt) |-> FinalRow(df, df_melt[p])]
       IN  IF \E p \in 1..Len(final) : final[p].year = ValueError
           THEN /\ pc' = "failed"
                /\ exc' = "ValueError"
                /\ df_final' = df_final
           ELSE /\ pc' = "normalized"
                /\ exc' = exc
                /\ df_final' = final
    /\ UNCHANGED <<script, first_run, csv_file, header_row_idx, df, df_melt, out_file,
                   yearVars, ageVars, econVars, batchVars, youthVars, scrapeVars>>

\* line 82: df_final.to_csv(out_file)
Save ==
    /\ script = "compile_master_csv" /\ pc = "normalized"
    /\ out_file' = File(df_final)
    /\ pc' = "done"
    /\ UNCHANGED <<script, first_run, csv_file, header_row_idx, df, df_melt, df_final, exc,
                   yearVars, ageVars, econVars, batchVars, youthVars, scrapeVars>>

----------------------------------------------------------------------------
(* clean_data.py: clean_simple_table, clean_problem_table                   *)

\* line 74: df = pd.read_csv(path)
LoadTable ==
    /\ script \in {"clean_simple_table", "clean_problem_table"} /\ pc = "start"
    /\ df' = ReadCsv(csv_file, 1)
    /\ pc' = "loaded"
    /\ UNCHANGED <<script, first_run, csv_file, header_row_idx, df_melt, df_final, out_file, exc,
                   yearVars, ageVars, econVars, batchVars, youthVars, scrapeVars>>

\* df.rename(columns={old: new})
Rename(frame, old, new) ==
    [frame EXCEPT !.columns = [j \in 1..Len(@) |-> IF @[j] = old THEN new ELSE @[j]]]

\* id_vars=["年"], every other column a value column
NenCols(frame) ==
    Positions({j \in 1..Len(frame.columns) : frame.columns[j] = Nen}, Len(frame.columns))
OtherCols(frame) ==
    Positions({j \in 1..Len(frame.columns) : frame.columns[j] # Nen}, Len(frame.columns))

\* lines 6-22
CleanSimpleTable ==
    /\ script = "clean_simple_table" /\ pc = "loaded"
    /\ df' = Rename(df, df.columns[1], Nen)
    /\ df_melt' = Melt(df', NenCols(df'), OtherCols(df'))
    /\ out_file' = File(df_melt')
    /\ pc' = "done"
    /\ UNCHANGED <<script, first_run, csv_file, header_row_idx, df_final, exc,
                   yearVars, ageVars, econVars, batchVars, youthVars, scrapeVars>>

\* lines 25-39: melt raises KeyError when no column is named 年
CleanProblemTable ==
    /\ script = "clean_problem_table" /\ pc = "loaded"
    /\ df' = Rename(df, Unnamed(0), Nen)
    /\ IF Len(NenCols(df')) = 0
       THEN /\ pc' = "failed"
            /\ exc' = "KeyError"
            /\ UNCHANGED <<df_melt, out_file>>
       ELSE /\ df_melt' = Melt(df', NenCols(df'), OtherCols(df'))
            /\ out_file' = File(df_melt')
            /\ pc' = "done"
            /\ exc' = exc
    /\ UNCHANGED <<script, first_run, csv_file, header_row_idx, df_final,
                   yearVars, ageVars, econVars, batchVars, youthVars, scrapeVars>>

\* the script is run a second time on the same input file: a new process,
\* with the files as the first run left them
RunScriptAgain ==
    /\ script # "none" /\ pc \in {"done", "failed"}
    /\ ~first_run.taken
    /\ first_run' = [taken |-> TRUE, file |-> out_file, exc |-> exc]
    /\ pc' = "start" /\ header_row_idx' = None
    /\ df' = EmptyFrame /\ df_melt' = <<>> /\ df_final' = <<>>
    /\ exc' = "none"
    /\ UNCHANGED <<script, csv_file, out_file, yearVars, ageVars, econVars, batchVars,
                   youthVars, scrapeVars>>

----------------------------------------------------------------------------
(* The input files tried                                                    *)

MaxPreRows == 1
MaxDataRows == 2

\* data rows: era years, plain and signed integers, counts with thousands
\* separators, 不詳, padded numbers, empty fields, a row that repeats the
\* marker label
DataRows ==
    {<<<<"H", "6">>, <<"1", ",", "2", "3", "4">>, <<"7">>>>,
     <<<<"~", "1", "9", "sai">>, <<"8">>, <<"9">>>>,
     <<<<"S">>, <<"fu", "shou">>, <<>>>>,
     <<<<"5">>, <<"-", "5">>, <<" ", "1", "2", " ">>>>,
     <<<<>>, <<>>, <<>>>>,
     <<<<"2", "0", "2", "0">>, <<"fu", "shou">>, <<"3">>>>}

\* a title row above the header
PreRow == <<<<"hyou">>, <<>>, <<>>>>

Age19 == <<"~", "1", "9", "sai">>
Age1019 == <<"1", "0", "~", "1", "9", "sai">>
Age2029 == <<"2", "0", "~", "2", "9", "sai">>
Kubun == <<"ku", "bun">>

\* header rows of the files given to compile_master_csv
CompileHeaders ==
    {<<Nen, Age19, Age2029>>,
     <<Nendo, Age19, <<"fu", "shou">>>>,
     <<Kubun, Age19>>,
     <<Nen, Age1019, Age2029>>,
     <<Age19, Age2029>>,
     <<Nen, <<"gou", "kei">>, Age19>>}

\* rows that may stand where the header row is expected but hold no marker
NoHeaders == {<<Kubun, Nen>>, <<Nen, Kubun, <<"gou", "kei">>>>}

\* header rows of the files given to the clean_data functions
CleanHeaders ==
    {<<<<>>, <<"dan">>, <<"x">>>>,
     <<Nen, <<"dan">>, <<"x">>>>,
     <<Kubun, <<"dan">>>>,
     <<<<"dan">>, <<>>, <<"x">>>>}

Cut(row, w) == SubSeq(row, 1, w)

SeqsOfRows(w, n) == SeqsUpTo({Cut(r, w) : r \in DataRows}, n)

CompileFiles ==
    UNION {{[i \in 1..pre |-> Cut(PreRow, Len(h))] \o <<h>> \o body :
                pre \in 0..MaxPreRows, body \in SeqsOfRows(Len(h), MaxDataRows)}
           : h \in CompileHeaders \cup NoHeaders}

CleanFiles ==
    UNION {{<<h>> \o body : body \in SeqsOfRows(Len(h), MaxDataRows)} : h \in CleanHeaders}

Init ==
    /\ script \in {"compile_master_csv", "clean_simple_table", "clean_problem_table"}
    /\ csv_file \in IF script = "compile_master_csv" THEN CompileFiles ELSE CleanFiles
    /\ pc = "start"
    /\ header_row_idx = None
    /\ df = EmptyFrame /\ df_melt = <<>> /\ df_final = <<>>
    /\ out_file = Absent /\ exc = "none" /\ first_run = FirstRun
    /\ YearIdle
    /\ AgeIdle
    /\ EconIdle
    /\ BatchIdle
    /\ YouthIdle
    /\ ScrapeIdle

Next ==
    \/ ReadAndDetectHeader
    \/ ReadAndMelt
    \/ Normalize
    \/ Save
    \/ LoadTable
    \/ CleanSimpleTable
    \/ CleanProblemTable
    \/ RunScriptAgain

Spec == Init /\ [][Next]_vars

----------------------------------------------------------------------------
(* Claims about the reshaping scripts                                       *)

Written == script = "compile_master_csv" /\ pc = "done" /\ out_file.exists

\* C3: every year of the table compile_master_csv writes is a 4-digit
\* Gregorian year or null, whatever the year column of the input holds.
C3_YearFourDigitsOrNull ==
    Written =>
        \A p \in 1..Len(out_file.rows) :
            \/ out_file.rows[p].year = None
            \/ out_file.rows[p].year.k = "int" /\ out_file.rows[p].year.v \in 1000..9999

\* the table has been melted and df_melt is the long table
Melted ==
    \/ script = "compile_master_csv" /\ pc \in {"melted", "normalized", "done"}
    \/ script \in {"clean_simple_table", "clean_problem_table"} /\ pc = "done"

\* the category columns of the melted table df, by script: the age columns,
\* every column but the first, every column but 年
CategoryCols ==
    {j \in 1..Len(df.columns) :
        IF script = "compile_master_csv" THEN df.columns[j] \in DOMAIN age_mapping
        ELSE IF script = "clean_simple_table" THEN j > 1
        ELSE df.columns[j] # Nen}

InOrder(S, n) == SelectSeq([j \in 1..n |-> j], LAMBDA j : j \in S)

CategorySeq == InOrder(CategoryCols, Len(df.columns))
IdentifierSeq == InOrder((1..Len(df.columns)) \ CategoryCols, Len(df.columns))

\* the long row that belongs to input row i and category column j
Origin(i, j) ==
    [ids |-> [m \in 1..Len(IdentifierSeq) |-> df.rows[i][IdentifierSeq[m]]],
     variable |-> df.columns[j],
     value |-> df.rows[i][j]]

Count(seq, x) == Cardinality({p \in 1..Len(seq) : seq[p] = x})

\* the rows of the input file with a cell that contains the marker
MarkerRows ==
    {i \in 1..Len(csv_file) :
        \E j \in 1..Len(csv_file[i]) : Contains(csv_file[i][j], Marker)}

\* C14: when no row of the input holds the marker, compile_master_csv writes
\* no output file and does not end in an uncaught exception.
C14_MissingHeaderSkipsFile ==
    (script = "compile_master_csv" /\ pc # "start" /\ MarkerRows = {}) =>
        /\ ~out_file.exists
        /\ exc = "none"

\* the header row has been detected
HeaderFound == script = "compile_master_csv" /\ header_row_idx # None

\* C15: the detected header row is the first row with a cell containing the
\* marker, at whatever index, and the table is read with that row naming the
\* columns and the rows after it as data.
C15_HeaderIsFirstMarkerRow ==
    HeaderFound =>
        LET h == header_row_idx.v + 1
        IN  /\ h \in MarkerRows
            /\ \A i \in 1..(h - 1) : i \notin MarkerRows
            /\ pc # "header" =>
                   /\ Len(df.columns) = Len(csv_file[h])
                   /\ \A j \in 1..Len(df.columns) :
                          csv_file[h][j] # <<>> => df.columns[j] = csv_file[h][j]
                   /\ df.rows = SelectSeq(SubSeq(csv_file, h + 1, Len(csv_file)),
                                          LAMBDA r : \E j \in 1..Len(r) : r[j] # <<>>)

C15_Witness ==
    /\ HeaderFound /\ pc = "done"
    /\ header_row_idx = IntVal(1)
    /\ Cardinality(MarkerRows) = 2
    /\ df.columns[2] = Marker

\* C5: melting R rows with K category columns yields exactly K*R long rows,
\* one per (row, category column) pair, each with that row's identifiers,
\* that column's label and that cell's value.
C5_MeltYieldsKTimesR ==
    Melted =>
        LET pairs == (1..Len(df.rows)) \X CategoryCols
        IN  /\ Len(df_melt) = Cardinality(CategoryCols) * Len(df.rows)
            /\ \A q \in pairs :
                   Count(df_melt, Origin(q[1], q[2]))
                       = Cardinality({r \in pairs : Origin(r[1], r[2]) = Origin(q[1], q[2])})

C5_Witness ==
    /\ script = "clean_problem_table" /\ pc = "done"
    /\ Cardinality(CategoryCols) = 2 /\ Len(df.rows) = 2
    /\ Len(df_melt) = 4
    /\ Count(df_melt, Origin(2, 3)) = 1

\* C6 as claimed: the long rows are ordered by original row first, by category
\* column within a row.
C6_RowFirstOrder ==
    Melted =>
        LET K == Len(CategorySeq)
        IN  \A i \in 1..Len(df.rows), n \in 1..K :
                /\ (i - 1) * K + n <= Len(df_melt)
                /\ df_melt[(i - 1) * K + n] = Origin(i, CategorySeq[n])

\* C6 as the code has it: the long rows are ordered by category column first,
\* by original row within a column: all R rows of one column come before any
\* row of the next column.
C6_ColumnFirstOrder ==
    Melted =>
        LET R == Len(df.rows)
        IN  \A i \in 1..R, n \in 1..Len(CategorySeq) :
                /\ (n - 1) * R + i <= Len(df_melt)
                /\ df_melt[(n - 1) * R + i] = Origin(i, CategorySeq[n])

C6_Witness ==
    /\ Melted
    /\ Len(df.rows) = 2 /\ Len(CategorySeq) = 2
    /\ df_melt[1] = Origin(1, CategorySeq[1])
    /\ df_melt[2] = Origin(2, CategorySeq[1])
    /\ df_melt[2] # Origin(1, CategorySeq[2])

OnlyDigitsAndCommas(text) ==
    /\ \A i \in 1..Len(text) : IsDigit(text[i]) \/ text[i] = ","
    /\ \E i \in 1..Len(text) : IsDigit(text[i])

\* C7: every melted cell is parsed after removing thousands separators and
\* surrounding whitespace; a cell that is still not a number (不詳) becomes
\* null and its row stays, so as many rows are written as were melted.
C7_CoercionKeepsRows ==
    Written =>
        /\ Len(out_file.rows) = Len(df_melt)
        /\ \A p \in 1..Len(df_melt) :
               LET cell == df_melt[p].value
               IN  /\ OnlyDigitsAndCommas(Strip(cell)) =>
                          out_file.rows[p].suicides = IntVal(DigitsValue(StripNonDigits(cell)))
                   /\ (\E i \in 1..Len(cell) : cell[i] \in {"fu", "shou"}) =>
                          out_file.rows[p].suicides = None

C7_Witness ==
    /\ Written
    /\ \E p, q \in 1..Len(df_melt) :
           /\ df_melt[p].value = <<"1", ",", "2", "3", "4">>
           /\ out_file.rows[p].suicides = IntVal(1234)
           /\ df_melt[q].value = <<"fu", "shou">>
           /\ out_file.rows[q].suicides = None

\* C8: every suicides value of the table compile_master_csv writes is a
\* non-negative count or null.
C8_SuicidesNonNegativeOrNull ==
    Written =>
        \A p \in 1..Len(out_file.rows) :
            \/ out_file.rows[p].suicides = None
            \/ out_file.rows[p].suicides.k = "int" /\ out_file.rows[p].suicides.v >= 0

\* C30: in compile_master_csv, every column of the detected header row whose
\* label contains the marker is selected as an age column and melted, so
\* whenever a header row is found the youngest bracket's counts are in the
\* output under a non-null age_group.
C30_MarkerColumnsAreMelted ==
    (script = "compile_master_csv" /\ pc \in {"melted", "normalized", "done"}) =>
        LET h == header_row_idx.v + 1
        IN  \A j \in 1..Len(csv_file[h]) :
                Contains(csv_file[h][j], Marker) =>
                    /\ \E m \in 1..Len(age_cols(df)) : age_cols(df)[m] = j
                    /\ \A i \in 1..Len(df.rows) :
                           \E p \in 1..Len(df_melt) :
                               /\ df_melt[p].variable = csv_file[h][j]
                               /\ df_melt[p].value = df.rows[i][j]
                               /\ Written => out_file.rows[p].age_group # NaN

----------------------------------------------------------------------------
(* assumptions.py: the two scenario functions                              *)

baseline_loss(annual_loss_yen) == annual_loss_yen

\* a reduced loss that is the reduction
reduced_loss_is_reduction(annual_loss_yen) ==
    (annual_loss_yen * assumptions.SUICIDE_REDUCTION_RATE) \div 100

reduced_loss(annual_loss_yen) ==
    (annual_loss_yen * (100 - assumptions.SUICIDE_REDUCTION_RATE)) \div 100

----------------------------------------------------------------------------
(* suicide_prevention_report.py                                             *)

RECURSIVE GCD(_, _)
GCD(a, b) == IF b = 0 THEN a ELSE GCD(b, a % b)

Ratio(n, d) == [k |-> "ratio", n |-> n \div GCD(n, d), d |-> d \div GCD(n, d)]

\* a division that gives 0 where the divisor is zero or missing
DivideOrZero(num, den) ==
    IF den = None \/ den.v = 0 THEN Ratio(0, 1) ELSE Ratio(num, den.v)

\* Series / Series: NaN when a side is NaN or for 0/0, inf for x/0
Divide(num, den) ==
    IF den = None THEN FloatNaN
    ELSE IF den.v = 0 THEN (IF num = 0 THEN FloatNaN ELSE FloatInf)
    ELSE Ratio(num, den.v)

\* dict.get(key, default)
DictGet(d, key, default) == IF key \in DOMAIN d THEN d[key] ELSE default

\* Series.map(dict) on a numeric table: the entry, or NaN
DictMap(d, key) == IF key \in DOMAIN d THEN IntVal(d[key]) ELSE None

\* the age_group labels in the order groupby sorts them
BracketOrder ==
    <<"0-19", "0-9", "10-19", "20-29", "30-39", "40-49", "50-59", "60-69", "70-79",
      "80+", "Total", "Unknown">>

\* a sum that puts the rows without a label into every bracket
RECURSIVE SumSuicidesAndUnlabelled(_, _)
SumSuicidesAndUnlabelled(rows, a) ==
    IF rows = <<>> THEN 0
    ELSE (IF Head(rows).age_group \in {a, NaN} THEN Head(rows).suicides ELSE 0)
         + SumSuicidesAndUnlabelled(Tail(rows), a)

RECURSIVE SumSuicides(_, _)
SumSuicides(rows, a) ==
    IF rows = <<>> THEN 0
    ELSE (IF Head(rows).age_group = a THEN Head(rows).suicides ELSE 0)
         + SumSuicides(Tail(rows), a)

\* a groupby that keeps the last row of each bracket instead of the sum
GroupByLast(rows) ==
    LET present == SelectSeq(BracketOrder,
                       LAMBDA a : \E i \in 1..Len(rows) : rows[i].age_group = a)
        last(a) == CHOOSE i \in 1..Len(rows) :
                       /\ rows[i].age_group = a
                       /\ \A j \in (i + 1)..Len(rows) : rows[j].age_group # a
    IN  [n \in 1..Len(present) |->
            [age_group |-> present[n], suicides |-> rows[last(present[n])].suicides]]

\* line 86: groupby('age_group', as_index=False)['suicides'].sum(): one row
\* per label present, sorted; rows whose label is NaN belong to no group
GroupBySum(rows) ==
    LET present == SelectSeq(BracketOrder,
                       LAMBDA a : \E i \in 1..Len(rows) : rows[i].age_group = a)
    IN  [n \in 1..Len(present) |->
            [age_group |-> present[n], suicides |-> SumSuicides(rows, present[n])]]

\* lines 88-101 for one bracket
PolicyRow(g) ==
    LET a == g.age_group
        lifetime == DictGet(assumptions.SALARY_BY_AGE, a, 0)
                    * DictGet(assumptions.WORK_YEARS_LEFT, a, 0)
        annual == g.suicides * lifetime
        prevented == (annual * assumptions.SUICIDE_REDUCTION_RATE) \div 100
        cost == DictMap(assumptions.INTERVENTION_COST_BY_AGE, a)
    IN  [age_group |-> a,
         suicides |-> g.suicides,
         lifetime_earnings_yen |-> lifetime,
         annual_loss_yen |-> annual,
         loss_prevented |-> prevented,
         intervention_cost |-> cost,
         roi |-> Divide(prevented, cost),
         baseline_loss |-> baseline_loss(annual),
         reduced_loss |-> reduced_loss(annual),
         net_benefit |-> IF cost = None THEN None ELSE IntVal(prevented - cost.v)]

calculate_economic_impact(rows) ==
    LET df_age_total == GroupBySum(rows)
    IN  [n \in 1..Len(df_age_total) |-> PolicyRow(df_age_total[n])]

\* lines 145-163 for one row; the fields in billions and millions are the
\* same amounts divided by a constant and are left out
BreakdownRow(row) ==
    [age_group |-> row.age_group,
     total_suicides |-> row.suicides,
     baseline_loss_yen |-> row.baseline_loss,
     loss_per_person_yen |-> row.lifetime_earnings_yen,
     intervention_cost_yen |-> row.intervention_cost,
     loss_prevented_yen |-> row.loss_prevented,
     reduced_loss_yen |-> row.reduced_loss,
     net_benefit_yen |-> row.net_benefit,
     roi |-> row.roi,
     salary_yen |-> assumptions.SALARY_BY_AGE[row.age_group],
     work_years_left |-> assumptions.WORK_YEARS_LEFT[row.age_group]]

\* assumptions.SALARY_BY_AGE[...] and WORK_YEARS_LEFT[...] raise KeyError
BreakdownRaises(policy) ==
    \E n \in 1..Len(policy) :
        \/ policy[n].age_group \notin DOMAIN assumptions.SALARY_BY_AGE
        \/ policy[n].age_group \notin DOMAIN assumptions.WORK_YEARS_LEFT

RECURSIVE SumSeq(_)
SumSeq(s) == IF s = <<>> THEN 0 ELSE Head(s) + SumSeq(Tail(s))

\* Series.sum() skips the missing values
NumOrZero(x) == IF x = None THEN 0 ELSE x.v

\* lines 116-129; the fields in billions and the average are the same amounts
\* divided by a constant and are left out
extract_summary_metrics(policy) ==
    LET N == Len(policy)
        prevented == SumSeq([n \in 1..N |-> policy[n].loss_prevented])
        cost == SumSeq([n \in 1..N |-> NumOrZero(policy[n].intervention_cost)])
    IN  [total_annual_loss_yen |-> SumSeq([n \in 1..N |-> policy[n].annual_loss_yen]),
         total_suicides |-> SumSeq([n \in 1..N |-> policy[n].suicides]),
         total_loss_prevented_yen |-> prevented,
         total_intervention_cost_yen |-> cost,
         total_net_benefit_yen |-> SumSeq([n \in 1..N |-> NumOrZero(policy[n].net_benefit)]),
         overall_roi |-> Divide(prevented, IntVal(cost))]

\* one row of age_cleaned.csv after rename, map and to_numeric
PreparedRow(table, r) ==
    [year |-> r.year,
     age_group |-> SeriesMap(table, r.label),
     suicides |-> ToNumeric(r.count)]

\* dropna() keeps the rows without a missing field
Complete(row) == row.year # None /\ row.age_group # NaN /\ row.suicides # None

Plain(rows) ==
    [i \in 1..Len(rows) |->
        [year |-> rows[i].year.v, age_group |-> rows[i].age_group,
         suicides |-> rows[i].suicides.v]]

\* a load that labels the rows with the table of compile_master_csv
load_with_age_mapping(csv) ==
    Plain(SelectSeq([i \in 1..Len(csv) |-> PreparedRow(age_mapping, csv[i])], Complete))

\* suicide_prevention_report.py lines 61-71 (convert_plotly_viz_chart1.py
\* lines 63-71 are the same statements)
load_and_prepare_data(csv) ==
    Plain(SelectSeq([i \in 1..Len(csv) |-> PreparedRow(age_map_report, csv[i])], Complete))

\* convert_plotly_viz.py lines 23-53
LoadVizRows(csv) ==
    LET labelled == [i \in 1..Len(csv) |-> PreparedRow(age_map_viz, csv[i])]
        kept == SelectSeq(labelled, LAMBDA r : r.age_group \notin {"Unknown", "Total"})
    IN  Plain(SelectSeq(kept, Complete))

RECURSIVE SortedSeq(_)
SortedSeq(S) == IF S = {} THEN <<>> ELSE <<Min(S)>> \o SortedSeq(S \ {Min(S)})

RECURSIVE SumYear(_, _)
SumYear(rows, y) ==
    IF rows = <<>> THEN 0
    ELSE (IF Head(rows).year = y THEN Head(rows).suicides ELSE 0) + SumYear(Tail(rows), y)

\* groupby('year')['suicides'].sum(): one row per year present, sorted
GroupByYear(rows) ==
    LET years == SortedSeq({rows[i].year : i \in 1..Len(rows)})
    IN  [n \in 1..Len(years) |-> [year |-> years[n], total |-> SumYear(rows, years[n])]]

\* the row merge makes of a left row and a matching right row, with line 188
PctRow(l, r) ==
    [year |-> l.year, age_group |-> l.age_group, suicides |-> l.suicides,
     total |-> r.total,
     percentage |-> Divide(l.suicides * 100, IntVal(r.total))]

\* a merge that keeps one left row per key
RECURSIVE MergeFirstPerYear(_, _)
MergeFirstPerYear(left, right) ==
    IF left = <<>> THEN <<>>
    ELSE LET l == Head(left)
             m == SelectSeq(right, LAMBDA r : r.year = l.year)
             rest == SelectSeq(Tail(left), LAMBDA x : x.year # l.year)
         IN  [i \in 1..Len(m) |-> PctRow(l, m[i])] \o MergeFirstPerYear(rest, right)

\* df_age.merge(yearly_totals, on='year'): an inner join, in the order of
\* the left rows
RECURSIVE Merge(_, _)
Merge(left, right) ==
    IF left = <<>> THEN <<>>
    ELSE LET l == Head(left)
             m == SelectSeq(right, LAMBDA r : r.year = l.year)
         IN  [i \in 1..Len(m) |-> PctRow(l, m[i])] \o Merge(Tail(left), right)

\* main line 344
LoadAndPrepareData ==
    /\ program = "suicide_prevention_report" /\ step = "load"
    /\ df_age' = load_and_prepare_data(age_csv)
    /\ step' = "start"
    /\ UNCHANGED <<program, assumptions, age_csv, df_policy, summary_metrics, age_breakdown,
                   yearly_totals, df_pct, json_file, first_json, raised,
                   yearVars, ageVars, tableVars, batchVars, youthVars, scrapeVars>>

\* dict.setdefault(key, 0) for every key of keys
SetDefault(d, keys) == [a \in DOMAIN d \cup keys |-> DictGet(d, a, 0)]

\* a calculation that looks the brackets up with setdefault(a, 0)
CalculateEconomicImpactSetDefault ==
    /\ program \in {"report_functions", "suicide_prevention_report"} /\ step = "start"
    /\ df_policy' = calculate_economic_impact(df_age)
    /\ LET groups == {df_policy'[n].age_group : n \in 1..Len(df_policy')}
       IN  assumptions' =
               [assumptions EXCEPT !.SALARY_BY_AGE = SetDefault(@, groups),
                                   !.WORK_YEARS_LEFT = SetDefault(@, groups)]
    /\ step' = "calculated"
    /\ UNCHANGED <<program, age_csv, df_age, summary_metrics, age_breakdown,
                   yearly_totals, df_pct, json_file, first_json, raised,
                   yearVars, ageVars, tableVars, batchVars, youthVars, scrapeVars>>

\* main line 347, or the function called with a table
CalculateEconomicImpact ==
    /\ program \in {"report_functions", "suicide_prevention_report"} /\ step = "start"
    /\ df_policy' = calculate_economic_impact(df_age)
    /\ step' = "calculated"
    /\ UNCHANGED <<program, assumptions, age_csv, df_age, summary_metrics, age_breakdown,
                   yearly_totals, df_pct, json_file, first_json, raised,
                   yearVars, ageVars, tableVars, batchVars, youthVars, scrapeVars>>

\* main line 350: numpy division gives inf or nan and does not raise
ExtractSummaryMetrics ==
    /\ step = "calculated"
    /\ summary_metrics' = extract_summary_metrics(df_policy)
    /\ step' = "summarized"
    /\ UNCHANGED <<program, assumptions, age_csv, df_age, df_policy, age_breakdown,
                   yearly_totals, df_pct, json_file, first_json, raised,
                   yearVars, ageVars, tableVars, batchVars, youthVars, scrapeVars>>

\* main line 351
ExtractAgeBreakdown ==
    /\ step = "summarized"
    /\ IF BreakdownRaises(df_policy)
       THEN /\ raised' = "KeyError"
            /\ step' = "failed"
            /\ age_breakdown' = age_breakdown
       ELSE /\ age_breakdown' = [n \in 1..Len(df_policy) |-> BreakdownRow(df_policy[n])]
            /\ step' = "extracted"
            /\ raised' = raised
    /\ UNCHANGED <<program, assumptions, age_csv, df_age, df_policy, summary_metrics,
                   yearly_totals, df_pct, json_file, first_json,
                   yearVars, ageVars, tableVars, batchVars, youthVars, scrapeVars>>

\* float(x) and int(x)
PyFloat(x) == Scalar("float", x)
PyIntOf(x) == Scalar("int", x)

\* the Python scalar that iterating a Series or an Index of that dtype gives
Item(dtype, x) == Scalar(IF dtype = "float64" THEN "float" ELSE "int", x)

\* a to_dict that keeps the index labels as NumPy scalars
SeriesToDictNumpyKeys(kdtype, vdtype, series) ==
    PyDict([n \in 1..Len(series) |-> Scalar("np." \o kdtype, series[n].year)],
           [n \in 1..Len(series) |-> Item(vdtype, series[n].total)])

\* line 247, Series.to_dict(): dict(zip(index, values)), both iterated as
\* Python scalars
SeriesToDict(kdtype, vdtype, series) ==
    PyDict([n \in 1..Len(series) |-> Item(kdtype, series[n].year)],
           [n \in 1..Len(series) |-> Item(vdtype, series[n].total)])

\* the dtype read_csv gives the year column: float64 when a cell is empty
YearDtype(csv) ==
    IF \E i \in 1..Len(csv) : csv[i].year = None THEN "float64" ELSE "int64"

\* the dtype to_numeric(errors='coerce') gives the suicides column
SuicidesDtype(csv) ==
    IF \E i \in 1..Len(csv) : ToNumeric(csv[i].count) = None THEN "float64" ELSE "int64"

\* lines 246-248
extract_temporal_trends(csv, rows) ==
    LET trends == GroupByYear(rows)
    IN  [yearly_trends |-> SeriesToDict(YearDtype(csv), SuicidesDtype(csv), trends),
         years_available |->
             PyList([n \in 1..Len(trends) |-> Item(YearDtype(csv), trends[n].year)])]

\* lines 116-129 as the dict of Python objects
SummaryDict(m) ==
    PyDict(PyStrs(<<"total_annual_loss_yen", "total_suicides",
                    "total_loss_prevented_yen", "total_intervention_cost_yen",
                    "total_net_benefit_yen", "overall_roi",
                    "intervention_effectiveness_rate">>),
           <<PyFloat(m.total_annual_loss_yen), PyIntOf(m.total_suicides),
             PyFloat(m.total_loss_prevented_yen), PyFloat(m.total_intervention_cost_yen),
             PyFloat(m.total_net_benefit_yen), PyFloat(m.overall_roi),
             Scalar("float", assumptions.SUICIDE_REDUCTION_RATE)>>)

\* lines 146-163 as the dict of Python objects
BreakdownDict(b) ==
    PyDict(PyStrs(<<"age_group", "total_suicides", "baseline_loss_yen",
                    "loss_per_person_yen", "intervention_cost_yen",
                    "loss_prevented_yen", "reduced_loss_yen", "net_benefit_yen",
                    "roi", "salary_yen", "work_years_left">>),
           <<Scalar("str", b.age_group), PyIntOf(b.total_suicides),
             PyFloat(b.baseline_loss_yen), PyFloat(b.loss_per_person_yen),
             PyFloat(b.intervention_cost_yen), PyFloat(b.loss_prevented_yen),
             PyFloat(b.reduced_loss_yen), PyFloat(b.net_benefit_yen), PyFloat(b.roi),
             Scalar("int", b.salary_yen), Scalar("int", b.work_years_left)>>)

\* main lines 357-370: extracted_data, without the sections made of the
\* gender and cause files; df_age.shape is a tuple of Python ints
ExtractedData(csv, rows, summary, breakdown) ==
    LET trends == extract_temporal_trends(csv, rows)
    IN  PyDict(PyStrs(<<"summary_metrics", "age_breakdown", "yearly_trends",
                        "years_available", "data_sources">>),
               <<SummaryDict(summary),
                 PyList([n \in 1..Len(breakdown) |-> BreakdownDict(breakdown[n])]),
                 trends.yearly_trends,
                 trends.years_available,
                 PyDict(PyStrs(<<"age_data_shape">>),
                        <<PyTuple(<<Scalar("int", Len(rows)), Scalar("int", 3)>>)>>)>>)

\* lines 265-276: dicts (their values, not their keys) and lists are
\* converted element by element, NumPy integers by int(), NumPy floats and
\* floats by float(), arrays by tolist(); every other object, a tuple too, is
\* returned as it is
RECURSIVE convert_to_native_types(_)
convert_to_native_types(obj) ==
    IF obj.t = "dict"
    THEN PyDict(obj.keys, [i \in 1..Len(obj.vals) |-> convert_to_native_types(obj.vals[i])])
    ELSE IF obj.t = "list"
    THEN PyList([i \in 1..Len(obj.items) |-> convert_to_native_types(obj.items[i])])
    ELSE IF obj.t \in {"np.int64", "np.int32"} THEN Scalar("int", obj.v)
    ELSE IF obj.t \in {"np.float64", "np.float32", "float"} THEN Scalar("float", obj.v)
    ELSE IF obj.t = "np.ndarray"
    THEN PyList([i \in 1..Len(obj.items) |->
                    Scalar(IF obj.items[i].t \in {"np.float64", "np.float32"}
                           THEN "float" ELSE "int", obj.items[i].v)])
    ELSE obj

\* main lines 352-372: the metrics of the age table go to
\* extracted_metrics.json (the gender and cause sections come from two other
\* files and are not part of this model)
SaveMetricsToJson ==
    /\ program = "suicide_prevention_report" /\ step = "extracted"
    /\ json_file' = [exists |-> TRUE,
                     summary_metrics |-> summary_metrics,
                     age_breakdown |-> age_breakdown,
                     yearly_trends |-> GroupByYear(df_age),
                     data_clean |-> convert_to_native_types(
                         ExtractedData(age_csv, df_age, summary_metrics,
                                       age_breakdown))]
    /\ step' = "saved"
    /\ UNCHANGED <<program, assumptions, age_csv, df_age, df_policy, summary_metrics, age_breakdown,
                   yearly_totals, df_pct, first_json, raised,
                   yearVars, ageVars, tableVars, batchVars, youthVars, scrapeVars>>

\* main is run a second time: a new process with the files as they are
RunMainAgain ==
    /\ program = "suicide_prevention_report" /\ step = "saved"
    /\ ~first_json.taken
    /\ first_json' = [taken |-> TRUE, file |-> json_file]
    /\ df_age' = <<>> /\ df_policy' = <<>> /\ age_breakdown' = <<>>
    /\ summary_metrics' = NoSummary
    /\ step' = "load"
    /\ assumptions' = AssumptionsAtLoad
    /\ UNCHANGED <<program, age_csv, yearly_totals, df_pct, json_file, raised,
                   yearVars, ageVars, tableVars, batchVars, youthVars, scrapeVars>>

\* convert_plotly_viz.py lines 20-53
LoadVizData ==
    /\ program = "convert_plotly_viz" /\ step = "load"
    /\ df_age' = LoadVizRows(age_csv)
    /\ step' = "loaded"
    /\ UNCHANGED <<program, assumptions, age_csv, df_policy, summary_metrics, age_breakdown,
                   yearly_totals, df_pct, json_file, first_json, raised,
                   yearVars, ageVars, tableVars, batchVars, youthVars, scrapeVars>>

\* convert_plotly_viz.py lines 183-188
CreateTopAgeGroupsArea ==
    /\ program = "convert_plotly_viz" /\ step = "loaded"
    /\ yearly_totals' = GroupByYear(df_age)
    /\ df_pct' = Merge(df_age, yearly_totals')
    /\ step' = "charted"
    /\ UNCHANGED <<program, assumptions, age_csv, df_age, df_policy, summary_metrics, age_breakdown,
                   json_file, first_json, raised,
                   yearVars, ageVars, tableVars, batchVars, youthVars, scrapeVars>>

MaxAgeRows == 2

\* the age_group labels and counts of the rows tried: the nine brackets of the
\* assumption tables, two labels they do not hold, and a missing label
AgeGroupsTried == DOMAIN SALARY_BY_AGE \cup {"0-19", "Unknown", NaN}
CountsTried == {40, 60}

Age4049 == <<"4", "0", "~", "4", "9", "sai">>

\* rows of age_cleaned.csv: recognized brackets, 不詳, 合計, a label no table
\* of the consumers holds, a count that is no number, a missing year
AgeCsvRows ==
    {[year |-> IntVal(2019), label |-> Age4049, count |-> <<"4", "0">>],
     [year |-> IntVal(2020), label |-> Age4049, count |-> <<"6", "0">>],
     [year |-> IntVal(2020), label |-> Age2029, count |-> <<"4", "0">>],
     [year |-> IntVal(2020), label |-> <<"fu", "shou">>, count |-> <<"6", "0">>],
     [year |-> IntVal(2020), label |-> <<"gou", "kei">>, count |-> <<"6", "0">>],
     [year |-> IntVal(2019), label |-> <<"8", "0", "sai", "i", "jou">>,
      count |-> <<"fu", "shou">>],
     [year |-> None, label |-> Age2029, count |-> <<"4", "0">>],
     [year |-> IntVal(2019), label |-> Age19, count |-> <<"4", "0">>]}

InitEcon ==
    /\ \/ /\ program = "report_functions"
          /\ age_csv = <<>>
          /\ df_age \in SeqsUpTo([age_group : AgeGroupsTried, suicides : CountsTried,
                                  year : {2020}], MaxAgeRows)
          /\ step = "start"
       \/ /\ program \in {"suicide_prevention_report", "convert_plotly_viz"}
          /\ age_csv \in SeqsUpTo(AgeCsvRows, MaxAgeRows)
          /\ df_age = <<>>
          /\ step = "load"
    /\ assumptions = AssumptionsAtLoad
    /\ df_policy = <<>> /\ age_breakdown = <<>>
    /\ summary_metrics = NoSummary
    /\ yearly_totals = <<>> /\ df_pct = <<>>
    /\ json_file = NoJson /\ first_json = NotRun
    /\ raised = "none"
    /\ YearIdle
    /\ AgeIdle
    /\ TableIdle
    /\ BatchIdle
    /\ YouthIdle
    /\ ScrapeIdle

NextEcon ==
    \/ LoadAndPrepareData
    \/ CalculateEconomicImpact
    \/ ExtractSummaryMetrics
    \/ ExtractAgeBreakdown
    \/ SaveMetricsToJson
    \/ RunMainAgain
    \/ LoadVizData
    \/ CreateTopAgeGroupsArea

SpecEcon == InitEcon /\ [][NextEcon]_vars

Calculated == step \in {"calculated", "summarized", "extracted", "failed", "saved"}

InTables(a) ==
    /\ a \in DOMAIN SALARY_BY_AGE
    /\ a \in DOMAIN WORK_YEARS_LEFT
    /\ a \in DOMAIN INTERVENTION_COST_BY_AGE

\* the number of suicides of bracket a over all the rows of df_age
BracketCount(a) ==
    LET idx == {i \in 1..Len(df_age) : df_age[i].age_group = a}
        RECURSIVE Total(_)
        Total(S) == IF S = {} THEN 0
                    ELSE LET i == CHOOSE x \in S : TRUE
                         IN  df_age[i].suicides + Total(S \ {i})
    IN  Total(idx)

\* C9: for every bracket, lifetime_earnings = salary * work_years_left,
\* annual_loss = suicide_count * lifetime_earnings, loss_prevented = 15% of
\* annual_loss, roi = loss_prevented / intervention_cost, net_benefit =
\* loss_prevented - intervention_cost, suicide_count being the sum of the
\* bracket's rows; count 100 with salary 5,000,000 and 15 years (bracket
\* 40-49) gives annual_loss 7,500,000,000 and loss_prevented 1,125,000,000,
\* and that over a cost of 3,000,000,000 is roi 0.375 = 3/8.
C9_EconomicFormulas ==
    Calculated =>
        \A n \in 1..Len(df_policy) :
            LET r == df_policy[n]
                a == r.age_group
            IN  InTables(a) =>
                    /\ r.suicides = BracketCount(a)
                    /\ r.lifetime_earnings_yen = SALARY_BY_AGE[a] * WORK_YEARS_LEFT[a]
                    /\ r.annual_loss_yen = r.suicides * r.lifetime_earnings_yen
                    /\ r.loss_prevented * 100 = r.annual_loss_yen * 15
                    /\ r.roi.k = "ratio"
                    /\ r.roi.n * INTERVENTION_COST_BY_AGE[a] = r.loss_prevented * r.roi.d
                    /\ r.net_benefit = IntVal(r.loss_prevented - INTERVENTION_COST_BY_AGE[a])
                    /\ (a = "40-49" /\ r.suicides = 100) =>
                           /\ r.lifetime_earnings_yen = 7500
                           /\ r.annual_loss_yen = 750000
                           /\ r.loss_prevented = 112500
                           /\ Divide(r.loss_prevented, IntVal(300000))
                                  = [k |-> "ratio", n |-> 3, d |-> 8]

C9_Witness ==
    /\ Calculated
    /\ Len(df_age) = 2
    /\ \E n \in 1..Len(df_policy) :
           /\ df_policy[n].age_group = "40-49"
           /\ df_policy[n].suicides = 100
           /\ df_policy[n].annual_loss_yen = 750000
           /\ df_policy[n].loss_prevented = 112500

\* C10: a bracket present in the counts but absent from an assumption table
\* gets 0 for the missing salary, work-years or intervention cost, and
\* calculate_economic_impact and extract_age_breakdown complete for it.
C10_MissingEntryDefaultsToZero ==
    Calculated =>
        /\ raised = "none"
        /\ \A n \in 1..Len(df_policy) :
               ~InTables(df_policy[n].age_group) =>
                   /\ df_policy[n].lifetime_earnings_yen = 0
                   /\ df_policy[n].intervention_cost = IntVal(0)

Summarized == step \in {"summarized", "extracted", "failed", "saved"}

\* C11: a bracket whose intervention cost is zero or missing has roi inf or
\* nan, and overall_roi is inf or nan when the total cost is zero; neither
\* is an ordinary number and extract_summary_metrics does not raise.
C11_UndefinedRoi ==
    /\ Calculated =>
           \A n \in 1..Len(df_policy) :
               LET r == df_policy[n]
               IN  (r.intervention_cost = None \/ r.intervention_cost.v = 0) =>
                       r.roi.k \in {"nan", "inf"}
    /\ step = "summarized" =>
           /\ raised = "none"
           /\ summary_metrics.total_intervention_cost_yen = 0 =>
                  summary_metrics.overall_roi.k \in {"nan", "inf"}

C11_Witness ==
    /\ step = "summarized"
    /\ Len(df_policy) = 2
    /\ \A n \in 1..Len(df_policy) :
           df_policy[n].intervention_cost = None /\ df_policy[n].roi = FloatNaN
    /\ summary_metrics.total_intervention_cost_yen = 0
    /\ summary_metrics.overall_roi = FloatNaN

\* the suicides of the complete rows of age_cleaned.csv whose label the
\* table maps to bracket a
CsvBracketCount(table, a) ==
    SumSeq([i \in 1..Len(age_csv) |->
               LET r == PreparedRow(table, age_csv[i])
               IN  IF Complete(r) /\ r.age_group = a THEN r.suicides.v ELSE 0])

\* C12: a row whose age label the bracket map does not know gets a null
\* age_group and is counted in no bracket: every bracket of the result is the
\* label of some row, its total is the sum of the rows with that label, and
\* in main() that is the sum of the rows of the file whose label maps to it.
C12_UnrecognizedLabelsExcluded ==
    Calculated =>
        /\ \A n \in 1..Len(df_policy) :
               /\ df_policy[n].age_group # NaN
               /\ \E i \in 1..Len(df_age) : df_age[i].age_group = df_policy[n].age_group
               /\ df_policy[n].suicides = BracketCount(df_policy[n].age_group)
        /\ \A i \in 1..Len(df_age) :
               df_age[i].age_group # NaN =>
                   \E n \in 1..Len(df_policy) : df_policy[n].age_group = df_age[i].age_group
        /\ program = "suicide_prevention_report" =>
               /\ \A n \in 1..Len(df_policy) :
                      df_policy[n].suicides
                          = CsvBracketCount(age_map_report, df_policy[n].age_group)
               /\ SumSeq([n \in 1..Len(df_policy) |-> df_policy[n].suicides])
                      = SumSeq([i \in 1..Len(age_csv) |->
                                   IF age_csv[i].label \in DOMAIN age_map_report
                                      /\ Complete(PreparedRow(age_map_report, age_csv[i]))
                                   THEN ToNumeric(age_csv[i].count).v ELSE 0])

C12_Witness ==
    /\ Calculated
    /\ program = "suicide_prevention_report"
    /\ Len(age_csv) = 2
    /\ age_csv[1].label = <<"fu", "shou">>
    /\ age_csv[2].label = Age4049
    /\ Len(df_policy) = 1
    /\ df_policy[1].age_group = "40-49"
    /\ df_policy[1].suicides = ToNumeric(age_csv[2].count).v

\* the suicides of the rows of df_age of year y
YearCount(y) ==
    SumSeq([i \in 1..Len(df_age) |-> IF df_age[i].year = y THEN df_age[i].suicides ELSE 0])

\* C18: the joins keep every left row: df_age merged with the per-year totals
\* has one row per row of df_age, in the same order, with that year's total;
\* the intervention cost lookup keeps every bracket, with null where the
\* cost table has no entry for the bracket.
C18_JoinsKeepLeftRows ==
    /\ (program = "convert_plotly_viz" /\ step = "charted") =>
           /\ Len(df_pct) = Len(df_age)
           /\ \A i \in 1..Len(df_age) :
                  /\ i <= Len(df_pct)
                  /\ df_pct[i].year = df_age[i].year
                  /\ df_pct[i].age_group = df_age[i].age_group
                  /\ df_pct[i].suicides = df_age[i].suicides
                  /\ df_pct[i].total = YearCount(df_age[i].year)
    /\ Calculated =>
           /\ Len(df_policy)
                  = Cardinality({df_age[i].age_group : i \in 1..Len(df_age)} \ {NaN})
           /\ \A n \in 1..Len(df_policy) :
                  df_policy[n].intervention_cost
                      = IF df_policy[n].age_group \in DOMAIN INTERVENTION_COST_BY_AGE
                        THEN IntVal(INTERVENTION_COST_BY_AGE[df_policy[n].age_group])
                        ELSE None

C18_Witness ==
    /\ program = "convert_plotly_viz" /\ step = "charted"
    /\ Len(df_age) = 2 /\ Len(df_pct) = 2
    /\ df_age[1].year = df_age[2].year
    /\ df_pct[1].total = df_age[1].suicides + df_age[2].suicides

NativeTypes == {"int", "float", "str", "bool", "NoneType"}

\* no NumPy or pandas object at any depth of a Python object
RECURSIVE Native(_)
Native(obj) ==
    IF obj.t = "dict"
    THEN \A i \in 1..Len(obj.keys) : Native(obj.keys[i]) /\ Native(obj.vals[i])
    ELSE IF obj.t \in {"list", "tuple"}
    THEN \A i \in 1..Len(obj.items) : Native(obj.items[i])
    ELSE obj.t \in NativeTypes

\* d[name] of a dict of Python objects
Field(d, name) ==
    d.vals[CHOOSE i \in 1..Len(d.keys) : d.keys[i] = Scalar("str", name)]

C22_AssumptionsUnchanged ==
    assumptions = AssumptionsAtLoad

C22_Witness ==
    /\ step = "failed" /\ raised = "KeyError"
    /\ \E n \in 1..Len(df_policy) : df_policy[n].age_group = "0-19"
    /\ \E n \in 1..Len(df_policy) : df_policy[n].age_group = "40-49"
    /\ summary_metrics.total_suicides > 0
    /\ assumptions = AssumptionsAtLoad

\* C27: after load_and_prepare_data every row's age_group is a key of
\* SALARY_BY_AGE, WORK_YEARS_LEFT and INTERVENTION_COST_BY_AGE, so in main()
\* the .get(a, 0) defaults are never taken, intervention_cost is never null
\* and the indexing of the tables in extract_age_breakdown never fails.
C27_LoadedBracketsAreInTables ==
    program = "suicide_prevention_report" =>
        /\ \A i \in 1..Len(df_age) : InTables(df_age[i].age_group)
        /\ \A n \in 1..Len(df_policy) :
               LET r == df_policy[n]
               IN  /\ r.age_group \in DOMAIN SALARY_BY_AGE
                   /\ r.age_group \in DOMAIN WORK_YEARS_LEFT
                   /\ r.lifetime_earnings_yen
                          = SALARY_BY_AGE[r.age_group] * WORK_YEARS_LEFT[r.age_group]
                   /\ r.intervention_cost # None
                   /\ r.net_benefit # None
                   /\ r.roi.k = "ratio"
        /\ raised = "none" /\ step # "failed"
        /\ step \in {"extracted", "saved"} => Len(age_breakdown) = Len(df_policy)

C27_Witness ==
    /\ program = "suicide_prevention_report" /\ step = "extracted"
    /\ Len(age_csv) = 2
    /\ age_csv[1].label = Age19
    /\ age_csv[2].label = Age2029 /\ age_csv[2].year # None
    /\ Len(df_age) = 1 /\ df_age[1].age_group = "20-29"
    /\ Len(age_breakdown) = 1

\* C28: for every bracket of the result of calculate_economic_impact,
\* baseline_loss equals annual_loss_yen and reduced_loss + loss_prevented
\* equals baseline_loss, in exact arithmetic: the two scenarios account for
\* the whole annual loss.
C28_ScenariosAccountForLoss ==
    Calculated =>
        \A n \in 1..Len(df_policy) :
            LET r == df_policy[n]
            IN  /\ r.baseline_loss = r.annual_loss_yen
                /\ r.reduced_loss + r.loss_prevented = r.baseline_loss
                /\ r.reduced_loss * 100
                       = r.annual_loss_yen * (100 - SUICIDE_REDUCTION_RATE)
                /\ r.loss_prevented * 100 = r.annual_loss_yen * SUICIDE_REDUCTION_RATE

C28_Witness ==
    /\ Calculated
    /\ Len(df_policy) = 2
    /\ df_policy[1].annual_loss_yen = 0 /\ df_policy[1].reduced_loss = 0
    /\ df_policy[2].age_group = "40-49"
    /\ df_policy[2].baseline_loss = 450000
    /\ df_policy[2].reduced_loss = 382500
    /\ df_policy[2].loss_prevented = 67500

----------------------------------------------------------------------------
(* The scripts that are run a second time on unchanged input files          *)

InitPipeline == Init \/ InitEcon

NextPipeline == Next \/ NextEcon

SpecPipeline == InitPipeline /\ [][NextPipeline]_vars

----------------------------------------------------------------------------
(* The batch scripts: clean_data.py (script body), check_data.py and        *)
(* pdf_to_csv.py.  An input file is a record; its kind says what reading it *)
(* does: "ok", "unreadable" (read_csv raises: the file is missing, empty or *)
(* not a table) or "no_year" (a table with no column 年 or "Unnamed: 0").    *)

Read(name) == [op |-> "read", file |-> name]
Write(name) == [op |-> "write", file |-> name]

\* clean_data.py line 52 and lines 19, 36: the name of a cleaned table
Cleaned(name) == name \o <<"_cleaned.csv">>

\* clean_data.py lines 44, 64-69, in the order the script visits them
RawTables ==
    <<<<"page32">>, <<"page33">>, <<"page31">>, <<"page30_table3">>, <<"page30_table4">>>>

NumLoopTables == Len(RawTables) - 1

\* clean_data.py lines 45-55: read page32, rename, melt, write
CleanPage32 ==
    /\ batch = "clean_data" /\ bpc = "page32"
    /\ LET f == inputs[1]
       IN  IF f.kind = "unreadable"
           THEN /\ bpc' = "aborted" /\ batch_exc' = "read_csv"
                /\ UNCHANGED <<io_log, out_dir>>
           ELSE IF f.kind = "no_year"
           THEN /\ bpc' = "aborted" /\ batch_exc' = "KeyError"
                /\ io_log' = Append(io_log, Read(f.name))
                /\ out_dir' = out_dir
           ELSE /\ bpc' = "load" /\ batch_exc' = batch_exc
                /\ io_log' = io_log \o <<Read(f.name), Write(Cleaned(f.name))>>
                /\ out_dir' = out_dir \cup {Cleaned(f.name)}
    /\ UNCHANGED <<batch, inputs, limit, pos, dataframes, all_columns,
                   tables_written, total_tables, yearVars, ageVars, tableVars, econVars,
                   youthVars, scrapeVars>>

\* clean_data.py lines 73-76: one iteration of the loading loop
LoadRawTable ==
    /\ batch = "clean_data" /\ bpc = "load"
    /\ LET f == inputs[pos + 2]
       IN  IF f.kind = "unreadable"
           THEN /\ bpc' = "aborted" /\ batch_exc' = "read_csv"
                /\ UNCHANGED <<io_log, dataframes, pos>>
           ELSE /\ dataframes' = dataframes \cup {f.name}
                /\ io_log' = Append(io_log, Read(f.name))
                /\ pos' = IF pos + 1 = NumLoopTables THEN 0 ELSE pos + 1
                /\ bpc' = IF pos + 1 = NumLoopTables THEN "clean" ELSE "load"
                /\ batch_exc' = batch_exc
    /\ UNCHANGED <<batch, inputs, limit, all_columns, out_dir,
                   tables_written, total_tables, yearVars, ageVars, tableVars, econVars,
                   youthVars, scrapeVars>>

\* clean_data.py lines 83-86: one call of clean_simple_table (the first two)
\* or clean_problem_table (the last two); clean_problem_table's melt raises
\* KeyError when the table has no column 年
CleanLoadedTable ==
    /\ batch = "clean_data" /\ bpc = "clean"
    /\ LET f == inputs[pos + 2]
           problem == pos >= 2
       IN  IF problem /\ f.kind = "no_year"
           THEN /\ bpc' = "aborted" /\ batch_exc' = "KeyError"
                /\ UNCHANGED <<io_log, out_dir, pos>>
           ELSE /\ out_dir' = out_dir \cup {Cleaned(f.name)}
                /\ io_log' = Append(io_log, Write(Cleaned(f.name)))
                /\ pos' = pos + 1
                /\ bpc' = IF pos + 1 = NumLoopTables THEN "done" ELSE "clean"
                /\ batch_exc' = batch_exc
    /\ UNCHANGED <<batch, inputs, limit, dataframes, all_columns,
                   tables_written, total_tables, yearVars, ageVars, tableVars, econVars,
                   youthVars, scrapeVars>>

\* check_data.py lines 12-14: one iteration of the loop over the CSV files
CheckCsv ==
    /\ batch = "check_data" /\ bpc = "loop" /\ pos < Len(inputs)
    /\ LET f == inputs[pos + 1]
       IN  IF f.kind = "unreadable"
           THEN /\ bpc' = "aborted" /\ batch_exc' = "read_csv"
                /\ UNCHANGED <<io_log, all_columns, pos>>
           ELSE /\ all_columns' = all_columns \cup f.columns
                /\ io_log' = Append(io_log, Read(f.name))
                /\ pos' = pos + 1
                /\ UNCHANGED <<bpc, batch_exc>>
    /\ UNCHANGED <<batch, inputs, limit, dataframes, out_dir,
                   tables_written, total_tables, yearVars, ageVars, tableVars, econVars,
                   youthVars, scrapeVars>>

\* check_data.py lines 16-18: the loop is over, the columns are printed
PrintColumns ==
    /\ batch = "check_data" /\ bpc = "loop" /\ pos = Len(inputs)
    /\ bpc' = "done"
    /\ UNCHANGED <<batch, inputs, limit, pos, dataframes, all_columns, out_dir,
                   tables_written, total_tables, io_log, batch_exc,
                   yearVars, ageVars, tableVars, econVars, youthVars, scrapeVars>>

\* pdf_to_csv.py line 58: f"{pdf_path.stem}_page{page_idx+1}_table{tbl_idx+1}.csv"
\* with the 0-based indices of the two enumerate loops
OutFname(stem, page_idx, tbl_idx) ==
    stem \o <<"_page">> \o Decimal(page_idx + 1) \o <<"_table">> \o Decimal(tbl_idx + 1)
         \o <<".csv">>

\* a table loop that gives up at the first table that fails
RECURSIVE TablesOfPageUntilError(_, _, _, _)
TablesOfPageUntilError(stem, page_idx, page_tables, tbl_idx) ==
    IF tbl_idx >= Len(page_tables) THEN <<>>
    ELSE LET table == page_tables[tbl_idx + 1]
         IN  IF table = "ragged" THEN <<>>
             ELSE (IF table = "good" THEN <<OutFname(stem, page_idx, tbl_idx)>> ELSE <<>>)
                  \o TablesOfPageUntilError(stem, page_idx, page_tables, tbl_idx + 1)

\* lines 42-65, from table tbl_idx on: the names written for one page.  A
\* table is "empty" (None or []: skipped), "good", or "ragged" (its rows do
\* not fit its header: pd.DataFrame raises, the except clause goes on)
RECURSIVE TablesOfPage(_, _, _, _)
TablesOfPage(stem, page_idx, page_tables, tbl_idx) ==
    IF tbl_idx >= Len(page_tables) THEN <<>>
    ELSE LET table == page_tables[tbl_idx + 1]
         IN  (IF table = "good" THEN <<OutFname(stem, page_idx, tbl_idx)>> ELSE <<>>)
             \o TablesOfPage(stem, page_idx, page_tables, tbl_idx + 1)

\* lines 30-40, from page page_idx on: a page whose extract_tables raises is
\* skipped, a page without tables too
RECURSIVE PagesOfPdf(_, _)
PagesOfPdf(pdf, page_idx) ==
    IF page_idx >= Len(pdf.pages) THEN <<>>
    ELSE LET page == pdf.pages[page_idx + 1]
         IN  (IF page.raises THEN <<>>
              ELSE TablesOfPage(pdf.stem, page_idx, page.tables, 0))
             \o PagesOfPdf(pdf, page_idx + 1)

\* lines 22-69: the names of the CSVs written, in order; tables_written is
\* their number
extract_tables_from_pdf(pdf) == IF pdf.opens THEN PagesOfPdf(pdf, 0) ELSE <<>>

Range(seq) == {seq[i] : i \in 1..Len(seq)}

\* pdf_to_csv.py lines 99-105: one iteration of the loop over the PDFs
ProcessPdf ==
    /\ batch = "pdf_to_csv" /\ bpc = "loop" /\ pos < Len(inputs)
    /\ ~(limit # 0 /\ pos >= limit)
    /\ LET pdf == inputs[pos + 1]
           names == extract_tables_from_pdf(pdf)
       IN  /\ out_dir' = out_dir \cup Range(names)
           /\ tables_written' = Len(names)
           /\ total_tables' = total_tables + Len(names)
           /\ io_log' = io_log \o (IF pdf.opens THEN <<Read(pdf.stem)>> ELSE <<>>)
                               \o [i \in 1..Len(names) |-> Write(names[i])]
           /\ pos' = pos + 1
    /\ UNCHANGED <<batch, inputs, limit, bpc, dataframes, all_columns, batch_exc,
                   yearVars, ageVars, tableVars, econVars, youthVars, scrapeVars>>

\* pdf_to_csv.py lines 93-95, 100-101, 107: no PDF is left or the limit is reached
FinishPdfs ==
    /\ batch = "pdf_to_csv" /\ bpc = "loop"
    /\ pos = Len(inputs) \/ (limit # 0 /\ pos >= limit)
    /\ bpc' = "done"
    /\ UNCHANGED <<batch, inputs, limit, pos, dataframes, all_columns, out_dir,
                   tables_written, total_tables, io_log, batch_exc,
                   yearVars, ageVars, tableVars, econVars, youthVars, scrapeVars>>

MaxCsvFiles == 2
MaxPdfs == 2

\* the five raw tables of clean_data.py, each of any kind
CleanDataInputs ==
    {[i \in 1..Len(RawTables) |-> [name |-> RawTables[i], kind |-> k[i]]] :
        k \in [1..Len(RawTables) -> {"ok", "unreadable", "no_year"}]}

\* files of data_raw/csvs for check_data.py
CsvFilesTried ==
    {[name |-> <<"a.csv">>, kind |-> "ok", columns |-> {Nen, <<"dan">>}],
     [name |-> <<"b.csv">>, kind |-> "unreadable", columns |-> {}],
     [name |-> <<"c.csv">>, kind |-> "ok", columns |-> {Nen, Age19}]}

\* glob gives every file once, in the order of the directory
CheckDataInputs ==
    {fs \in SeqsUpTo(CsvFilesTried, MaxCsvFiles) :
        \A i, j \in 1..Len(fs) : i # j => fs[i] # fs[j]}

\* PDFs for pdf_to_csv.py, in the order of their names: one that does not
\* open, one with a page that fails and a page with four tables, one with a
\* page without tables, one without pages
PdfsTried ==
    <<[stem |-> <<"a">>, opens |-> FALSE, pages |-> <<>>],
      [stem |-> <<"b">>, opens |-> TRUE,
       pages |-> <<[raises |-> TRUE, tables |-> <<>>],
                   [raises |-> FALSE, tables |-> <<"good", "empty", "ragged", "good">>]>>],
      [stem |-> <<"c">>, opens |-> TRUE,
       pages |-> <<[raises |-> FALSE, tables |-> <<>>],
                   [raises |-> FALSE, tables |-> <<"ragged", "good">>]>>],
      [stem |-> <<"d">>, opens |-> TRUE, pages |-> <<>>]>>

\* sorted(pdf_dir.glob("*.pdf")): some of the PDFs, in the order of their names
PdfInputs ==
    {[i \in 1..Len(idx) |-> PdfsTried[idx[i]]] :
        idx \in {s \in SeqsUpTo(1..Len(PdfsTried), MaxPdfs) :
                    \A i \in 1..(Len(s) - 1) : s[i] < s[i + 1]}}

InitBatch ==
    /\ \/ /\ batch = "clean_data" /\ inputs \in CleanDataInputs
          /\ limit = 0 /\ bpc = "page32"
       \/ /\ batch = "check_data" /\ inputs \in CheckDataInputs
          /\ limit = 0 /\ bpc = "loop"
       \/ /\ batch = "pdf_to_csv" /\ inputs \in PdfInputs
          /\ limit \in {0, 1} /\ bpc = "loop"
    /\ pos = 0
    /\ dataframes = {} /\ all_columns = {} /\ out_dir = {}
    /\ tables_written = 0 /\ total_tables = 0
    /\ io_log = <<>> /\ batch_exc = "none"
    /\ YearIdle
    /\ AgeIdle
    /\ TableIdle
    /\ EconIdle
    /\ YouthIdle
    /\ ScrapeIdle

NextBatch ==
    \/ CleanPage32
    \/ LoadRawTable
    \/ CleanLoadedTable
    \/ CheckCsv
    \/ PrintColumns
    \/ ProcessPdf
    \/ FinishPdfs

SpecBatch == InitBatch /\ [][NextBatch]_vars

----------------------------------------------------------------------------
(* Claims about the batch scripts                                           *)

Ended == bpc \in {"done", "aborted"}

\* the CSVs one PDF should give: one per table that is neither empty nor
\* failing, on a page whose extraction did not fail, named by the 1-based
\* positions of the page and of the table on the page
ExpectedCsvs(pdf) ==
    IF ~pdf.opens THEN {}
    ELSE UNION {{pdf.stem \o <<"_page">> \o Decimal(N) \o <<"_table">> \o Decimal(M)
                          \o <<".csv">> :
                    M \in {m \in 1..Len(pdf.pages[N].tables) : pdf.pages[N].tables[m] = "good"}}
                : N \in {n \in 1..Len(pdf.pages) : ~pdf.pages[n].raises}}

\* C13: when one input file of a batch is malformed or unreadable, every
\* other file of the batch is still processed: clean_data writes the cleaned
\* table of every well-formed raw table, check_data collects the columns of
\* every readable CSV, pdf_to_csv writes the tables of every PDF it is asked
\* to process.
C13_PerFileFailuresIsolated ==
    Ended =>
        /\ batch = "clean_data" =>
               \A i \in 1..Len(inputs) :
                   inputs[i].kind = "ok" => Cleaned(inputs[i].name) \in out_dir
        /\ batch = "check_data" =>
               \A i \in 1..Len(inputs) :
                   inputs[i].kind = "ok" => inputs[i].columns \subseteq all_columns
        /\ batch = "pdf_to_csv" =>
               \A i \in 1..Len(inputs) :
                   (limit = 0 \/ i <= limit) => ExpectedCsvs(inputs[i]) \subseteq out_dir

\* C17: within one run every read of an input file comes before the first
\* write of an output file, and clean_data writes no cleaned table before all
\* five raw tables are loaded.
C17_ReadsBeforeWrites ==
    /\ \A i, j \in 1..Len(io_log) :
           (i < j /\ io_log[i].op = "write") => io_log[j].op = "write"
    /\ batch = "clean_data" =>
           \A i \in 1..Len(io_log) :
               io_log[i].op = "write" =>
                   \A t \in 1..Len(RawTables) :
                       \E k \in 1..(i - 1) : io_log[k] = Read(RawTables[t])

\* C20: extract_tables_from_pdf writes one CSV per table that is not empty,
\* named {stem}_page{N}_table{M}.csv by the 1-based positions, and returns
\* the number of CSVs written; a page or table that fails takes no other
\* page or table with it.
C20_OneCsvPerTable ==
    (batch = "pdf_to_csv" /\ pos > 0) =>
        LET pdf == inputs[pos]
        IN  /\ tables_written = Cardinality(ExpectedCsvs(pdf))
            /\ ExpectedCsvs(pdf) \subseteq out_dir
            /\ \A name \in out_dir : Head(name) = Head(pdf.stem) => name \in ExpectedCsvs(pdf)
            /\ total_tables = Cardinality(out_dir)

C20_Witness ==
    /\ batch = "pdf_to_csv" /\ pos > 0
    /\ inputs[pos].stem = <<"b">>
    /\ tables_written = 2
    /\ <<"b", "_page", "2", "_table", "1", ".csv">> \in out_dir
    /\ <<"b", "_page", "2", "_table", "4", ".csv">> \in out_dir
    /\ <<"b", "_page", "2", "_table", "3", ".csv">> \notin out_dir

----------------------------------------------------------------------------
(* youth_suicide_data.py and youth_json_charts.py.  Amounts of money are in *)
(* thousands of yen; lives and DALYs are in units of 1e-7, so that          *)
(* (population / 100_000) * rate * (percent / 100) is the whole number      *)
(* population * rate * percent.  A cost per life or per DALY is then an     *)
(* exact ratio in units of 1e10 yen.                                        *)

\* NonprofitCostCalculator.__init__, lines 22-43
staff_costs == <<2000, 2000, 2000, 3000, 5000, 500>>
operating_costs == <<300, 400, 200, 150, 200, 150>>
benefits_rate == 15

\* NonprofitCostCalculator.calculate_total_cost, lines 52-61
calculate_total_cost ==
    LET total_staff == SumSeq(staff_costs)
        total_benefits == (total_staff * benefits_rate) \div 100
        total_operating == SumSeq(operating_costs)
    IN  [staff_costs_jpy |-> total_staff,
         benefits_jpy |-> total_benefits,
         operating_costs_jpy |-> total_operating,
         total_program_cost_jpy |-> total_staff + total_benefits + total_operating]

\* youth_json_charts.py lines 18-34: the table's own two dicts
table_staff_costs == <<2000, 2000, 2000, 3000, 1500, 500>>
table_operating_costs == <<300, 400, 200, 150, 200, 150>>

\* youth_json_charts.py lines 36-39; the argument data is not read
create_program_cost_table ==
    LET total_staff == SumSeq(table_staff_costs)
        benefits == (total_staff * 15) \div 100
        total_operating == SumSeq(table_operating_costs)
    IN  [total_staff |-> total_staff,
         benefits |-> benefits,
         total_operating |-> total_operating,
         total_program |-> total_staff + benefits + total_operating]

\* ProgramImpactModel.__init__, lines 84-85 and 104-107
avg_students_per_school == 500
life_expectancy_japan == 84
retirement_age == 65
avg_annual_salary == 4500
effective_tax_rate == 25
avg_age_at_prevention == 17

\* lines 173-180: int(hotline_contacts_annual * 0.80) truncates
calculate_reach(schools_reached, hotline_contacts_annual) ==
    LET students_in_workshops == schools_reached * avg_students_per_school
        unique_hotline_contacts == (hotline_contacts_annual * 8) \div 10
    IN  [students_in_workshops |-> students_in_workshops,
         unique_hotline_contacts |-> unique_hotline_contacts,
         total_individuals_reached |-> students_in_workshops + unique_hotline_contacts]

\* lines 210-211, in units of 1e-5 deaths
calculate_baseline_risk(population_reached) ==
    population_reached * youth_suicide_rate_per_100k

\* x / y of Python numbers: ZeroDivisionError when y is 0, for floats too
ZeroDivisionError == [k |-> "ZeroDivisionError", n |-> 0, d |-> 0]
PyDivide(n, d) == IF d = 0 THEN ZeroDivisionError ELSE Ratio(n, d)

\* a / b if b > 0 else 0
GuardedDivide(n, d) == IF d > 0 THEN Ratio(n, d) ELSE Ratio(0, 1)

\* the scenarios of line 229 in the order of the dict, in percent
scenarios == <<15, 25, 35>>

\* lines 238-291, one pass of the loop.  lifetime earnings are 216,000
\* thousand yen, so the economic value of lives_saved (1e-7) lives over the
\* cost is lives_saved * 216 / (10^4 * program_cost)
Scenario(population, expected_deaths, effectiveness) ==
    LET lives_saved == expected_deaths * effectiveness
        years_of_life == life_expectancy_japan - avg_age_at_prevention
        dalys_averted == lives_saved * years_of_life
        work_years == retirement_age - avg_age_at_prevention
        lifetime_gross_earnings == work_years * avg_annual_salary
        lifetime_tax_revenue == (lifetime_gross_earnings * effective_tax_rate) \div 100
    IN  [effectiveness_rate |-> effectiveness,
         lives_saved_annually |-> lives_saved,
         dalys_averted |-> dalys_averted,
         cost_per_life_saved_jpy |-> GuardedDivide(program_cost, lives_saved),
         cost_per_daly_jpy |-> GuardedDivide(program_cost, dalys_averted),
         cost_per_person_reached_jpy |-> PyDivide(program_cost, population),
         roi_gross_earnings |->
             GuardedDivide(lives_saved * (lifetime_gross_earnings \div 1000),
                           10000 * program_cost),
         roi_tax_revenue |->
             GuardedDivide(lives_saved * (lifetime_tax_revenue \div 1000),
                           10000 * program_cost)]

\* lines 225-301: the results of the three scenarios; the division of line
\* 261 raises in the first pass when nobody was reached
calculate_impact(reach_metrics) ==
    LET population == reach_metrics.total_individuals_reached
        expected_deaths == calculate_baseline_risk(population)
    IN  [n \in 1..Len(scenarios) |-> Scenario(population, expected_deaths, scenarios[n])]

\* the WHO thresholds of lines 315-316 in dollars
highly_effective_threshold == 34000
cost_effective_threshold == 102000

\* cost_per_daly_jpy / 150 < threshold, for a cost in units of 1e10 yen:
\* n/d * 1e10 / 150 < t  is  n * 100000 < (t * 150 / 100000) * d
BelowThreshold(cost_per_daly, threshold) ==
    cost_per_daly.n * 100000 < ((threshold * 150) \div 100000) * cost_per_daly.d

\* threshold / cost_per_daly_usd
TimesBelow(threshold, cost_per_daly) ==
    PyDivide(((threshold * 150) \div 100000) * cost_per_daly.d, cost_per_daly.n * 100000)

\* lines 318-334, for results['cost_per_daly_usd'] of a scenario
assess_cost_effectiveness(cost_per_daly) ==
    IF BelowThreshold(cost_per_daly, highly_effective_threshold)
    THEN [classification |-> "HIGHLY COST-EFFECTIVE",
          times_below_threshold |-> TimesBelow(highly_effective_threshold, cost_per_daly)]
    ELSE IF BelowThreshold(cost_per_daly, cost_effective_threshold)
    THEN [classification |-> "COST-EFFECTIVE",
          times_below_threshold |-> TimesBelow(cost_effective_threshold, cost_per_daly)]
    ELSE [classification |-> "ABOVE THRESHOLD", times_below_threshold |-> Ratio(0, 1)]

\* generate_program_report lines 355-368
EstimateProgramCost ==
    /\ youth = "youth_suicide_data" /\ ypc = "start"
    /\ program_cost' = IF actual_budget = None
                       THEN calculate_total_cost.total_program_cost_jpy
                       ELSE actual_budget.v
    /\ ypc' = "costed"
    /\ UNCHANGED <<youth, schools, hotline, actual_budget, youth_suicide_rate_per_100k,
                   reach, impact, who_assessment, cost_table, youth_exc,
                   yearVars, ageVars, tableVars, econVars, batchVars, scrapeVars>>

\* generate_program_report line 385
CalculateReach ==
    /\ youth = "youth_suicide_data" /\ ypc = "costed"
    /\ reach' = calculate_reach(schools, hotline)
    /\ ypc' = "reached"
    /\ UNCHANGED <<youth, schools, hotline, actual_budget, youth_suicide_rate_per_100k,
                   program_cost, impact, who_assessment, cost_table, youth_exc,
                   yearVars, ageVars, tableVars, econVars, batchVars, scrapeVars>>

\* generate_program_report lines 408-414
CalculateImpact ==
    /\ youth = "youth_suicide_data" /\ ypc = "reached"
    /\ LET results == calculate_impact(reach)
       IN  IF results[1].cost_per_person_reached_jpy = ZeroDivisionError
           THEN /\ youth_exc' = "ZeroDivisionError"
                /\ ypc' = "failed"
                /\ impact' = impact
           ELSE /\ impact' = results
                /\ ypc' = "impact"
                /\ youth_exc' = youth_exc
    /\ UNCHANGED <<youth, schools, hotline, actual_budget, youth_suicide_rate_per_100k,
                   program_cost, reach, who_assessment, cost_table,
                   yearVars, ageVars, tableVars, econVars, batchVars, scrapeVars>>

\* generate_program_report lines 420-441: one pass of the loop over the
\* scenarios, which ends with the assessment of the scenario
AssessScenario ==
    /\ youth = "youth_suicide_data" /\ ypc = "impact"
    /\ Len(who_assessment) < Len(impact)
    /\ LET results == impact[Len(who_assessment) + 1]
           assessment == assess_cost_effectiveness(results.cost_per_daly_jpy)
       IN  IF assessment.times_below_threshold = ZeroDivisionError
           THEN /\ youth_exc' = "ZeroDivisionError"
                /\ ypc' = "failed"
                /\ who_assessment' = who_assessment
           ELSE /\ who_assessment' = Append(who_assessment, assessment)
                /\ UNCHANGED <<ypc, youth_exc>>
    /\ UNCHANGED <<youth, schools, hotline, actual_budget, youth_suicide_rate_per_100k,
                   program_cost, reach, impact, cost_table,
                   yearVars, ageVars, tableVars, econVars, batchVars, scrapeVars>>

\* generate_program_report lines 449-488: the report is exported
ExportReport ==
    /\ youth = "youth_suicide_data" /\ ypc = "impact"
    /\ Len(who_assessment) = Len(impact)
    /\ ypc' = "exported"
    /\ UNCHANGED <<youth, schools, hotline, actual_budget, youth_suicide_rate_per_100k,
                   program_cost, reach, impact, who_assessment, cost_table, youth_exc,
                   yearVars, ageVars, tableVars, econVars, batchVars, scrapeVars>>

\* youth_json_charts.py line 744
CreateProgramCostTable ==
    /\ youth = "youth_json_charts" /\ ypc = "start"
    /\ cost_table' = create_program_cost_table
    /\ ypc' = "table"
    /\ UNCHANGED <<youth, schools, hotline, actual_budget, youth_suicide_rate_per_100k,
                   program_cost, reach, impact, who_assessment, youth_exc,
                   yearVars, ageVars, tableVars, econVars, batchVars, scrapeVars>>

MaxSchools == 1
MaxHotline == 2

\* the budgets tried: none given, nothing, 500,000 yen, 10,000,000 yen
BudgetsTried == {None, IntVal(0), IntVal(500), IntVal(10000)}

\* the rates per 100,000 tried
RatesTried == {0, 1, 5}

InitYouth ==
    /\ \/ /\ youth = "youth_suicide_data"
          /\ schools \in 0..MaxSchools
          /\ hotline \in 0..MaxHotline
          /\ actual_budget \in BudgetsTried
          /\ youth_suicide_rate_per_100k \in RatesTried
       \/ /\ youth = "youth_json_charts"
          /\ schools = 0 /\ hotline = 0 /\ actual_budget = None
          /\ youth_suicide_rate_per_100k = 0
    /\ ypc = "start"
    /\ program_cost = 0 /\ reach = NoReach /\ impact = <<>>
    /\ who_assessment = <<>> /\ cost_table = NoTable /\ youth_exc = "none"
    /\ YearIdle
    /\ AgeIdle
    /\ TableIdle
    /\ EconIdle
    /\ BatchIdle
    /\ ScrapeIdle

NextYouth ==
    \/ EstimateProgramCost
    \/ CalculateReach
    \/ CalculateImpact
    \/ AssessScenario
    \/ ExportReport
    \/ CreateProgramCostTable

SpecYouth == InitYouth /\ [][NextYouth]_vars

\* C23: the cost table of create_program_cost_table shows the default
\* estimates of NonprofitCostCalculator: its staff subtotal, benefits,
\* operating subtotal and total equal those of calculate_total_cost().
C23_TableUsesCalculatorDefaults ==
    (youth = "youth_json_charts" /\ ypc = "table") =>
        /\ cost_table.total_staff = calculate_total_cost.staff_costs_jpy
        /\ cost_table.benefits = calculate_total_cost.benefits_jpy
        /\ cost_table.total_operating = calculate_total_cost.operating_costs_jpy
        /\ cost_table.total_program = calculate_total_cost.total_program_cost_jpy

\* C29: for every non-negative number of schools, hotline contacts, program
\* cost and loaded youth suicide rate, calculate_impact followed by
\* assess_cost_effectiveness on each scenario's cost_per_daly_usd completes
\* without a division-by-zero error.
C29_NoDivisionByZero ==
    youth = "youth_suicide_data" =>
        /\ youth_exc # "ZeroDivisionError"
        /\ ypc # "failed"

----------------------------------------------------------------------------
(* police_scraper.py.  A URL is its text, one string per character, with    *)
(* "base" for "https://www.npa.go.jp/safetylife/seianki/jisatsu"; the body  *)
(* the server sends for a file URL is named by that URL.                    *)

BASE_URL == <<"base", "/">>

\* the attempts of range(3)
MaxAttempts == 3

\* what one session.get and the checks after it can come to
Outcomes == {"ok", "403", "error_status", "exception"}

\* the position of the last "/" of a text, 0 when it has none
LastSlash(text) ==
    IF \E i \in 1..Len(text) : text[i] = "/"
    THEN LastHit({i \in 1..Len(text) : text[i] = "/"})
    ELSE 0

\* urljoin(base, href) for a relative href
urljoin(base, href) == SubSeq(base, 1, LastSlash(base)) \o href

\* url.split("/")[-1]
Filename(url) == SubSeq(url, LastSlash(url) + 1, Len(url))

StartsWith(text, prefix) ==
    Len(text) >= Len(prefix) /\ SubSeq(text, 1, Len(prefix)) = prefix

EndsWith(text, suffix) ==
    /\ Len(text) >= Len(suffix)
    /\ SubSeq(text, Len(text) - Len(suffix) + 1, Len(text)) = suffix

\* resp.text parsed: the href of every anchor of the page, <<>> for none
Anchors(url) == IF url \in DOMAIN site THEN site[url] ELSE <<>>

\* lines 48-57
FolderLinks(url) ==
    LET hrefs == SelectSeq(Anchors(url),
                     LAMBDA href : /\ href # <<>>
                                   /\ \/ Contains(href, <<"R", "0">>)
                                      \/ StartsWith(href, <<"H">>))
    IN  [i \in 1..Len(hrefs) |-> urljoin(BASE_URL, hrefs[i])]

\* lines 69-76
FileLinks(folder_url) ==
    LET hrefs == SelectSeq(Anchors(folder_url),
                     LAMBDA href : /\ href # <<>>
                                   /\ \/ EndsWith(href, <<".", "p", "d", "f">>)
                                      \/ EndsWith(href, <<".", "c", "s", "v">>))
    IN  [i \in 1..Len(hrefs) |-> urljoin(folder_url, hrefs[i])]

\* os.path.exists(out_path)
Exists(name) == \E f \in download_dir : f.name = name

\* the content of the file of that name in a directory, <<>> when missing
ContentIn(dir, name) ==
    IF \E f \in dir : f.name = name
    THEN (CHOOSE f \in dir : f.name = name).content
    ELSE <<>>

\* open(out_path, "wb") and f.write(content)
WriteFile(dir, name, content) ==
    {f \in dir : f.name # name} \cup {[name |-> name, content |-> content]}

\* the start of a call of safe_get
CallSafeGet(url) ==
    /\ sg_url' = url
    /\ attempt' = 0
    /\ outcomes' = <<>>
    /\ resp' = Running

\* a safe_get that does not count a 403 as an attempt
SafeGetAttemptRetrying403 ==
    /\ resp = Running
    /\ attempt < MaxAttempts
    /\ Len(outcomes) <= MaxAttempts
    /\ \E o \in Outcomes :
           /\ outcomes' = Append(outcomes, o)
           /\ any_failure' = (any_failure \/ o # "ok")
           /\ IF o = "ok"
              THEN /\ resp' = Response(sg_url)
                   /\ attempt' = attempt
              ELSE /\ attempt' = IF o = "403" THEN attempt ELSE attempt + 1
                   /\ resp' = IF attempt' = MaxAttempts THEN NoResponse ELSE Running
    /\ UNCHANGED <<spc, site, run, dir_at_start, download_dir, year_folders, all_files, loop_idx,
                   sg_url, dl_log,
                   yearVars, ageVars, tableVars, econVars, batchVars, youthVars>>

\* lines 25-37: one pass of the loop of safe_get.  The GET raises, or is
\* answered 403, or with another error status (raise_for_status raises and
\* the except clause catches it), or succeeds and the response is returned;
\* after the third failed pass the function returns None
SafeGetAttempt ==
    /\ resp = Running
    /\ attempt < MaxAttempts
    /\ \E o \in Outcomes :
           /\ outcomes' = Append(outcomes, o)
           /\ any_failure' = (any_failure \/ o # "ok")
           /\ IF o = "ok"
              THEN /\ resp' = Response(sg_url)
                   /\ attempt' = attempt
              ELSE /\ attempt' = attempt + 1
                   /\ resp' = IF attempt' = MaxAttempts THEN NoResponse ELSE Running
    /\ UNCHANGED <<spc, site, run, dir_at_start, download_dir, year_folders, all_files, loop_idx,
                   sg_url, dl_log,
                   yearVars, ageVars, tableVars, econVars, batchVars, youthVars>>

\* main line 104, list_year_folders line 41
ListYearFolders ==
    /\ spc = "start"
    /\ CallSafeGet(BASE_URL)
    /\ spc' = "get_base"
    /\ UNCHANGED <<site, run, dir_at_start, download_dir, year_folders, all_files, loop_idx, dl_log,
                   any_failure,
                   yearVars, ageVars, tableVars, econVars, batchVars, youthVars>>

\* list_year_folders lines 42-60, main line 105
ListYearFoldersReturn ==
    /\ spc = "get_base" /\ resp \notin {Running, NotCalled}
    /\ year_folders' = IF resp = NoResponse THEN <<>> ELSE FolderLinks(resp.url)
    /\ all_files' = <<>>
    /\ loop_idx' = 1
    /\ spc' = "scan"
    /\ resp' = NotCalled
    /\ UNCHANGED <<site, run, dir_at_start, download_dir, sg_url, attempt, outcomes, dl_log, any_failure,
                   yearVars, ageVars, tableVars, econVars, batchVars, youthVars>>

\* main lines 107-109, list_files_in_folder line 63
ListFilesInFolder ==
    /\ spc = "scan" /\ loop_idx <= Len(year_folders)
    /\ CallSafeGet(year_folders[loop_idx])
    /\ spc' = "get_folder"
    /\ UNCHANGED <<site, run, dir_at_start, download_dir, year_folders, all_files, loop_idx, dl_log,
                   any_failure,
                   yearVars, ageVars, tableVars, econVars, batchVars, youthVars>>

\* list_files_in_folder lines 64-78, main line 109
ListFilesInFolderReturn ==
    /\ spc = "get_folder" /\ resp \notin {Running, NotCalled}
    /\ all_files' = all_files \o (IF resp = NoResponse THEN <<>> ELSE FileLinks(resp.url))
    /\ loop_idx' = loop_idx + 1
    /\ spc' = "scan"
    /\ resp' = NotCalled
    /\ UNCHANGED <<site, run, dir_at_start, download_dir, year_folders, sg_url, attempt, outcomes,
                   dl_log, any_failure,
                   yearVars, ageVars, tableVars, econVars, batchVars, youthVars>>

\* main lines 111-113: the scan is over and the downloads start
StartDownloads ==
    /\ spc = "scan" /\ loop_idx > Len(year_folders)
    /\ spc' = "download"
    /\ loop_idx' = 1
    /\ UNCHANGED <<site, run, dir_at_start, download_dir, year_folders, all_files, sg_url, attempt,
                   outcomes, resp, dl_log, any_failure,
                   yearVars, ageVars, tableVars, econVars, batchVars, youthVars>>

\* a download that does not look whether the file exists
DownloadFileAlways ==
    /\ spc = "download" /\ loop_idx <= Len(all_files)
    /\ CallSafeGet(all_files[loop_idx])
    /\ spc' = "get_file"
    /\ UNCHANGED <<site, run, dir_at_start, download_dir, year_folders, all_files,
                   loop_idx, dl_log, any_failure,
                   yearVars, ageVars, tableVars, econVars, batchVars, youthVars>>

\* main line 114, download_file lines 81-90: a file that exists is skipped
\* without a request
DownloadFile ==
    /\ spc = "download" /\ loop_idx <= Len(all_files)
    /\ LET url == all_files[loop_idx]
           filename == Filename(url)
       IN  IF Exists(filename)
           THEN /\ dl_log' = Append(dl_log,
                        [run |-> run, url |-> url,
                         before |-> ContentIn(download_dir, filename),
                         attempts |-> 0, fetched |-> FALSE,
                         after |-> ContentIn(download_dir, filename)])
                /\ loop_idx' = loop_idx + 1
                /\ UNCHANGED <<spc, sg_url, attempt, outcomes, resp>>
           ELSE /\ CallSafeGet(url)
                /\ spc' = "get_file"
                /\ UNCHANGED <<dl_log, loop_idx>>
    /\ UNCHANGED <<site, run, dir_at_start, download_dir, year_folders, all_files, any_failure,
                   yearVars, ageVars, tableVars, econVars, batchVars, youthVars>>

\* download_file lines 91-99: resp.content is written to out_path
DownloadFileReturn ==
    /\ spc = "get_file" /\ resp \notin {Running, NotCalled}
    /\ LET url == all_files[loop_idx]
           filename == Filename(url)
       IN  /\ download_dir' =
                  IF resp = NoResponse THEN download_dir
                  ELSE WriteFile(download_dir, filename, resp.url)
           /\ dl_log' = Append(dl_log,
                  [run |-> run, url |-> url,
                   before |-> ContentIn(download_dir, filename),
                   attempts |-> Len(outcomes), fetched |-> resp # NoResponse,
                   after |-> ContentIn(download_dir', filename)])
    /\ loop_idx' = loop_idx + 1
    /\ spc' = "download"
    /\ resp' = NotCalled
    /\ UNCHANGED <<site, run, dir_at_start, year_folders, all_files, sg_url, attempt, outcomes,
                   any_failure,
                   yearVars, ageVars, tableVars, econVars, batchVars, youthVars>>

\* main line 116
FinishDownloads ==
    /\ spc = "download" /\ loop_idx > Len(all_files)
    /\ spc' = "done"
    /\ UNCHANGED <<site, run, dir_at_start, download_dir, year_folders, all_files, loop_idx, sg_url,
                   attempt, outcomes, resp, dl_log, any_failure,
                   yearVars, ageVars, tableVars, econVars, batchVars, youthVars>>

\* the scraper is run a second time: a new process that finds the download
\* directory as the first run left it
RunScraperAgain ==
    /\ spc = "done" /\ run = 1
    /\ run' = 2
    /\ spc' = "start"
    /\ year_folders' = <<>> /\ all_files' = <<>> /\ loop_idx' = 0
    /\ sg_url' = <<>> /\ attempt' = 0 /\ outcomes' = <<>> /\ resp' = NotCalled
    /\ any_failure' = FALSE
    /\ dir_at_start' = download_dir
    /\ UNCHANGED <<site, download_dir, dl_log,
                   yearVars, ageVars, tableVars, econVars, batchVars, youthVars>>

\* the hrefs of the pages tried
HrefR05 == <<"R", "0", "5", "/">>
HrefH30 == <<"H", "3", "0", "/">>
HrefA == <<"a", ".", "p", "d", "f">>
HrefB == <<"b", ".", "c", "s", "v">>
HrefPage == <<"x", ".", "h", "t", "m", "l">>

\* the sites tried: two year folders that both hold a file a.pdf, and one
\* year folder with two files; an anchor without href and a page that is
\* neither a folder nor a file are among the links
SitesTried ==
    {(BASE_URL :> <<HrefR05, <<>>, HrefPage, HrefH30>>)
        @@ (urljoin(BASE_URL, HrefR05) :> <<HrefA, HrefPage>>)
        @@ (urljoin(BASE_URL, HrefH30) :> <<HrefA>>),
     (BASE_URL :> <<HrefR05>>)
        @@ (urljoin(BASE_URL, HrefR05) :> <<HrefA, HrefB>>)}

\* DOWNLOAD_DIR before the first run: empty, or with a file of an earlier day
DirsTried == {{}, {[name |-> HrefA, content |-> <<"o", "l", "d">>]}}

InitScrape ==
    /\ spc = "start"
    /\ site \in SitesTried
    /\ run = 1
    /\ download_dir \in DirsTried
    /\ dir_at_start = download_dir
    /\ year_folders = <<>> /\ all_files = <<>> /\ loop_idx = 0
    /\ sg_url = <<>> /\ attempt = 0 /\ outcomes = <<>> /\ resp = NotCalled
    /\ dl_log = <<>> /\ any_failure = FALSE
    /\ YearIdle
    /\ AgeIdle
    /\ TableIdle
    /\ EconIdle
    /\ BatchIdle
    /\ YouthIdle

NextScrape ==
    \/ ListYearFolders
    \/ SafeGetAttempt
    \/ ListYearFoldersReturn
    \/ ListFilesInFolder
    \/ ListFilesInFolderReturn
    \/ StartDownloads
    \/ DownloadFile
    \/ DownloadFileReturn
    \/ FinishDownloads
    \/ RunScraperAgain

\* the script is one sequential process: a step that can be taken is taken
SpecScrape == InitScrape /\ [][NextScrape]_vars /\ WF_vars(NextScrape)

\* what holds of a call of safe_get while it runs and when it has returned
SafeGetInv ==
    /\ attempt <= MaxAttempts
    /\ Len(outcomes) <= MaxAttempts
    /\ \A i \in 1..(Len(outcomes) - 1) : outcomes[i] # "ok"
    /\ resp = Running => \A i \in 1..Len(outcomes) : outcomes[i] # "ok"
    /\ resp.k = "response" =>
           /\ outcomes # <<>>
           /\ outcomes[Len(outcomes)] = "ok"
           /\ resp.url = sg_url
    /\ resp.k \in {"None", "response"} =>
           (resp = NoResponse <=>
               /\ Len(outcomes) = MaxAttempts
               /\ \A i \in 1..MaxAttempts : outcomes[i] # "ok")

\* C24: safe_get makes at most 3 GETs for a URL and always returns; it
\* returns the response of the first GET that neither raises nor is answered
\* 403 or with an error status, makes no GET after that one, and returns
\* None exactly when all 3 GETs fail.
C24_SafeGetRetriesThreeTimes ==
    /\ []SafeGetInv
    /\ (resp = Running) ~> (resp.k \in {"None", "response"})

C24_Witness ==
    /\ resp = Response(sg_url)
    /\ outcomes = <<"403", "exception", "ok">>
    /\ attempt = 2

\* C25: download_file writes the target file only when no file existed at
\* that path and the fetch succeeded; when the file exists it makes no
\* request and leaves the file as it is; when the fetch fails it creates no
\* file, so a later run requests that URL again.
C25_WritesOnlyNewFetchedFiles ==
    \A i \in 1..Len(dl_log) :
        LET e == dl_log[i]
        IN  /\ e.after # e.before => (e.before = <<>> /\ e.fetched /\ e.after = e.url)
            /\ e.before # <<>> => (e.attempts = 0 /\ ~e.fetched /\ e.after = e.before)
            /\ (e.before = <<>> /\ ~e.fetched) => e.after = <<>>
            /\ (e.before = <<>> /\ e.fetched) => e.after = e.url
            /\ e.before = <<>> => e.attempts >= 1

C25_Witness ==
    /\ spc = "done" /\ run = 2
    /\ \E i, j, k \in 1..Len(dl_log) :
           /\ dl_log[i].run = 1 /\ dl_log[i].before = <<>> /\ ~dl_log[i].fetched
           /\ dl_log[j].run = 2 /\ dl_log[j].url = dl_log[i].url
           /\ dl_log[j].attempts = 1 /\ dl_log[j].fetched
           /\ dl_log[k].before # <<>> /\ dl_log[k].attempts = 0

\* C26: after main() has completed on an empty download directory with every
\* request succeeding, the directory holds, for every file URL discovered, a
\* file whose content is the body of that URL.
C26_EveryDiscoveredFileIsStored ==
    (spc = "done" /\ dir_at_start = {} /\ ~any_failure) =>
        \A i \in 1..Len(all_files) :
            \E f \in download_dir : f.content = all_files[i]

====
